---- MODULE Spec2Model ----
(***************************************************************************)
(* Model of the agent-flow-framework orchestration core:                   *)
(*   - AgentRouter.classify_intent     (src/orchestrator/agent_router.py)  *)
(*   - LangGraphBuilder.build_graph    (src/orchestrator/langgraph_builder.py) *)
(*   - OrchestratorImpl.handle_user_query / run_graph                      *)
(*                          (src/orchestrator/impl/orchestrator_impl.py)   *)
(*                                                                         *)
(* Text is modelled as a sequence of one-character strings so that         *)
(* lower(), strip() and the substring test are computed, not assumed.      *)
(* Confidence values are kept in tenths (1.0 = 10, 0.5 = 5, 0.8 = 8).      *)
(***************************************************************************)
EXTENDS Integers, Sequences, FiniteSets, TLC

VARIABLES
    intent_configs,   \* AgentRouter.intent_configs: domain -> ordered intent table
    rcall,            \* router frame: the arguments of one classify_intent call
    rret,             \* router frame: what that call returned or raised
    workflows,        \* the <domain>_workflow.yaml files on disk: domain -> intent -> flow
    registries,       \* the capability registries: kind -> name -> component
    bcall,            \* builder frame: the arguments of one build_graph call
    bret,             \* builder frame: what that call returned or raised
    store,            \* the memory backend: session id -> persisted State
    req,              \* the handle_user_query calls in flight: slot -> frame
    served,           \* how many requests have been received
    fcall,            \* feedback step frame: the FeedbackManager and the inputs of one collect_feedback call
    fret,             \* feedback step frame: what that call returned or raised
    ncall,            \* reflection step frame: the inputs and completion outcomes of one ReflectionNode.run call
    nret,             \* reflection step frame: what that call returned or raised
    mret,             \* State Bridge frame: the last load_state / save_state / clear_state and its outcome
    kret,             \* registry frame: the last register / get / clear call and its outcome
    chat              \* controller frame: the arguments of one handle_chat call and its response

routerVars == <<intent_configs, rcall, rret>>
builderVars == <<workflows, registries, bcall, bret>>
pipelineVars == <<store, req, served>>
stepVars == <<fcall, fret, ncall, nret, mret, kret, chat>>

-----------------------------------------------------------------------------
(* Values shared by all components *)

\* Python's None, and a key that is missing from a mapping.
None == "<None>"
Absent == "<absent>"

\* Python truthiness of an optional string (None, a missing key and "" are falsy).
Truthy(x) == x \notin {None, Absent, ""}

\* Raised by a step that has not returned yet.
NotReturned == [status |-> "pending"]

\* The frame of a step no call was drawn for.
NoCall == [idle |-> TRUE]

\* The feedback step, the reflection step, the State Bridge, the registry
\* calls and the controller of a specification that makes no call of its own
\* to them.
StepsIdle ==
    /\ fcall = NoCall
    /\ fret = NotReturned
    /\ ncall = NoCall
    /\ nret = NotReturned
    /\ mret = NotReturned
    /\ kret = NotReturned
    /\ chat = NoCall

-----------------------------------------------------------------------------
(* Text *)

\* Longest query the router specification enumerates.
MaxQueryLen == 3

Alphabet == {"a", "A", "b", " "}

SeqsUpTo(S, n) == UNION {[1..k -> S] : k \in 0..n}

Queries == SeqsUpTo(Alphabet, MaxQueryLen)

\* str.lower() on one character.
LowerChar(c) == IF c = "A" THEN "a" ELSE c

\* str.lower()
Lower(s) == [i \in 1..Len(s) |-> LowerChar(s[i])]

Min(S) == CHOOSE x \in S : \A y \in S : x <= y
Max(S) == CHOOSE x \in S : \A y \in S : x >= y

\* str.strip(): drop leading and trailing whitespace.
Strip(s) ==
    LET solid == {i \in 1..Len(s) : s[i] # " "}
    IN  IF solid = {} THEN <<>> ELSE SubSeq(s, Min(solid), Max(solid))

\* Python's `k in s` on strings.
Contains(s, k) ==
    \E off \in 0..(Len(s) - Len(k)) : SubSeq(s, off + 1, off + Len(k)) = k

-----------------------------------------------------------------------------
(* Intent Router: src/orchestrator/agent_router.py *)

\* AgentRouter.__init__(default_domain="hello")
default_domain == "hello"

\* The per-domain intents.yaml tables found under the data directory, in
\* file order (yaml.safe_load keeps the order of a mapping).
IntentTables ==
    [hello  |-> << [name |-> "greeting", keywords |-> << <<"a", "b">>, <<"A">> >>],
                   [name |-> "farewell", keywords |-> << <<"b">>, <<"a">> >>],
                   [name |-> "qa",       keywords |-> << >>] >>,
     dealer |-> << [name |-> "service",  keywords |-> << <<"b", " ">>, <<"A", "a">> >>],
                   [name |-> "sales",    keywords |-> << <<"a", " ", "b">>, <<"b">> >>] >>]

\* _load_all_domains keeps every directory that has a non-empty intents.yaml and
\* raises ConfigError when none is left; it does not require the default domain
\* to be one of them.
LoadableConfigs ==
    {[d \in D |-> IntentTables[d]] : D \in (SUBSET DOMAIN IntentTables) \ {{}}}

\* The domain argument of a request: missing, empty, configured or unknown.
DomainArgs == {None, "", "hello", "dealer", "school"}

\* What llm.apredict does for one call: raise, or return a value.  A returned
\* value is a dict, or text that json.loads turns into an object, into another
\* JSON value (list, number, string, null), or rejects (JSONDecodeError).
LlmIntents == {Absent, "", "greeting", "refund"}
\* An optional number is <<>> (the key is missing) or <<n>>.
LlmConfidences == {<<>>, <<5>>, <<15>>, <<-2>>}
LlmOutcomes ==
    {[kind |-> "raise", intent |-> Absent, confidence |-> <<>>],
     [kind |-> "non_json", intent |-> Absent, confidence |-> <<>>],
     [kind |-> "json_other", intent |-> Absent, confidence |-> <<>>]}
    \cup [kind : {"dict", "json_object"}, intent : LlmIntents, confidence : LlmConfidences]

\* _safe_parse (agent_router.py:154-165)
RouterSafeParse(raw) ==
    CASE raw.kind = "dict"        -> [type |-> "dict", intent |-> raw.intent, confidence |-> raw.confidence]
      [] raw.kind = "json_object" -> [type |-> "dict", intent |-> raw.intent, confidence |-> raw.confidence]
      [] raw.kind = "json_other"  -> [type |-> "other", intent |-> Absent, confidence |-> <<>>]
      [] raw.kind = "non_json"    -> [type |-> "dict", intent |-> "qa", confidence |-> <<5>>]

\* Domain resolution (agent_router.py:72-75)
ResolveDomain(configs, domain) ==
    LET d == IF Truthy(domain) THEN domain ELSE default_domain
    IN  IF d \notin DOMAIN configs THEN default_domain ELSE d

NoMatch == [found |-> FALSE, intent |-> None, kw |-> <<>>]

\* A scan that keeps looking after a hit, so that the last matching pair wins.
RECURSIVE RuleScanLastWins(_, _, _, _)
RuleScanLastWins(intents, query_lower, i, j) ==
    IF i > Len(intents) THEN NoMatch
    ELSE IF j > Len(intents[i].keywords) THEN RuleScanLastWins(intents, query_lower, i + 1, 1)
    ELSE LET rest == RuleScanLastWins(intents, query_lower, i, j + 1)
         IN  IF rest.found THEN rest
             ELSE IF Contains(query_lower, Lower(intents[i].keywords[j]))
                  THEN [found |-> TRUE, intent |-> intents[i].name, kw |-> intents[i].keywords[j]]
                  ELSE rest

\* The two nested loops of the rule pass (agent_router.py:83-93), entered at
\* intent i, keyword j; the return inside the loops ends the scan.
RECURSIVE RuleScan(_, _, _, _)
RuleScan(intents, query_lower, i, j) ==
    IF i > Len(intents) THEN NoMatch
    ELSE IF j > Len(intents[i].keywords) THEN RuleScan(intents, query_lower, i + 1, 1)
    ELSE IF Contains(query_lower, Lower(intents[i].keywords[j]))
         THEN [found |-> TRUE, intent |-> intents[i].name, kw |-> intents[i].keywords[j]]
         ELSE RuleScan(intents, query_lower, i, j + 1)

\* A Route Decision as classify_intent returns it; matched_keyword is <<kw>> on
\* the rule path and <<>> (no such key) on the others.  llm_calls counts the
\* apredict calls the classification made.
Route(domain, intent, confidence, method, kw, calls) ==
    [status |-> "ok", llm_calls |-> calls,
     route |-> [domain |-> domain, intent |-> intent, confidence |-> confidence,
                method |-> method, matched_keyword |-> kw]]

\* The default fallback (agent_router.py:119-126)
DefaultRoute(domain, calls) == Route(domain, "qa", 5, "default", <<>>, calls)

\* An LLM pass without the try/except: a failing completion call propagates.
LlmPassNoCatch(domain, llm) ==
    IF llm.kind = "raise" THEN [status |-> "raise", error |-> "LLMError", llm_calls |-> 1]
    ELSE LET parsed == RouterSafeParse(llm)
         IN  IF parsed.type = "dict" /\ Truthy(parsed.intent)
             THEN Route(domain, parsed.intent,
                        IF parsed.confidence = <<>> THEN 8 ELSE parsed.confidence[1],
                        "llm", <<>>, 1)
             ELSE DefaultRoute(domain, 1)

\* The LLM pass (agent_router.py:95-117): every exception is caught and falls
\* through to the default fallback.
LlmPass(domain, llm) ==
    IF llm.kind = "raise" THEN DefaultRoute(domain, 1)
    ELSE LET parsed == RouterSafeParse(llm)
         IN  IF parsed.type # "dict" THEN DefaultRoute(domain, 1)  \* parsed.get: AttributeError
             ELSE IF Truthy(parsed.intent)
                  THEN Route(domain, parsed.intent,
                             IF parsed.confidence = <<>> THEN 8 ELSE parsed.confidence[1],
                             "llm", <<>>, 1)
                  ELSE DefaultRoute(domain, 1)

\* AgentRouter.classify_intent (agent_router.py:67-126)
ClassifyIntent(configs, query, domain, llm) ==
    LET d == ResolveDomain(configs, domain)
    IN  IF d \notin DOMAIN configs
        THEN [status |-> "raise", error |-> "KeyError", llm_calls |-> 0]  \* intent_configs[domain]
        ELSE LET hit == RuleScan(configs[d], Strip(Lower(query)), 1, 1)
             IN  IF hit.found
                 THEN Route(d, hit.intent, 10, "rule", <<hit.kw>>, 0)
                 ELSE LlmPass(d, llm)

-----------------------------------------------------------------------------
(* Capability registries: src/core/registry.py, filled at boot by src/main.py *)

EmptyMap == [x \in {} |-> None]

\* AgentRegistry.register("HelloAgent", HelloAgent) and
\* NodeRegistry.register("GreetingNode", GreetingNode) (main.py:33-34);
\* MemoryRegistry.autoload registers redis and vector (registry.py:85-95).
BootRegistries ==
    [agent  |-> ("HelloAgent" :> "HelloAgent"),
     tool   |-> EmptyMap,
     node   |-> ("GreetingNode" :> "GreetingNode"),
     memory |-> ("redis" :> "RedisMemory") @@ ("vector" :> "VectorMemory")]

\* BaseRegistry.get (registry.py:27-29): None for a name that is not registered.
RegistryGet(reg, name) == IF name \in DOMAIN reg THEN reg[name] ELSE None

\* A register that writes the component whether or not the name is taken.
RegisterOverwrites(reg, name, component, override) ==
    [status |-> "ok", error |-> None, reg |-> (name :> component) @@ reg]

\* BaseRegistry.register (registry.py:17-25): a name that is present is
\* replaced only with override; otherwise RegistryError and nothing is written.
Register(reg, name, component, override) ==
    IF name \in DOMAIN reg /\ ~override
    THEN [status |-> "raise", error |-> "RegistryError", reg |-> reg]
    ELSE [status |-> "ok", error |-> None, reg |-> (name :> component) @@ reg]

\* BaseRegistry.clear (registry.py:57-60)
RegistryClear(reg) == EmptyMap

-----------------------------------------------------------------------------
(* Workflow Graph Builder: src/orchestrator/langgraph_builder.py *)

\* LangGraphBuilder.__init__(default_domain="hello")
builder_default_domain == "hello"

NodeSpec(name, type, class) == [name |-> name, type |-> type, class |-> class]

\* An edge entry of the YAML: a 2-list, a 3-list (its third item is text, here a
\* sequence of the tokens "if:", " " and words), or anything else.
Pair(src, dst) == [shape |-> "pair", src |-> src, dst |-> dst, cond |-> <<>>]
Triple(src, dst, cond) == [shape |-> "triple", src |-> src, dst |-> dst, cond |-> cond]
OtherEdge == [shape |-> "other", src |-> None, dst |-> None, cond |-> <<>>]

\* A flow is the mapping stored under an intent; keys records which of "nodes"
\* and "edges" the mapping has (a mapping without keys is falsy in Python).
Flow(keys, nodes, edges) == [keys |-> keys, nodes |-> nodes, edges |-> edges]

GreetingFlow ==
    Flow({"nodes", "edges"},
         << NodeSpec("greet", "node", "GreetingNode"),
            NodeSpec("reflect", "node", "ReflectionNode"),
            NodeSpec("feedback", "node", "FeedbackManager") >>,
         << Pair("greet", "reflect"), Pair("reflect", "feedback"),
            Triple("reflect", "greet", <<"if:", " ", "reask">>) >>)
AgentFlow == Flow({"nodes"}, << NodeSpec("hello", "agent", "HelloAgent") >>, << >>)
ChainFlow ==
    Flow({"nodes", "edges"},
         << NodeSpec("greet", "node", "GreetingNode"),
            NodeSpec("reflect", "node", "ReflectionNode"),
            NodeSpec("feedback", "node", "FeedbackManager") >>,
         << Pair("greet", "reflect"), Pair("reflect", "feedback") >>)
BranchFlow ==
    Flow({"nodes", "edges"},
         << NodeSpec("greet", "node", "GreetingNode"),
            NodeSpec("hello", "agent", "HelloAgent"),
            NodeSpec("feedback", "node", "FeedbackManager") >>,
         << Pair("greet", "hello"), Triple("greet", "feedback", <<"if:", " ", "reask">>),
            Pair("hello", "feedback") >>)
LoopFlow ==
    Flow({"nodes", "edges"},
         << NodeSpec("greet", "node", "GreetingNode") >>,
         << Triple("greet", "greet", <<"if:", " ", "reply">>) >>)
EmptyFlow == Flow({}, << >>, << >>)
ZeroNodeFlow == Flow({"nodes", "edges"}, << >>, << >>)
ZeroNodeEdgesFlow == Flow({"edges"}, << >>, << Pair("greet", "reflect") >>)
SkippedFirstFlow ==
    Flow({"nodes", "edges"},
         << NodeSpec("intro", Absent, Absent), NodeSpec("greet", "node", "GreetingNode") >>,
         << Pair("intro", "greet") >>)
NamelessFirstFlow ==
    Flow({"nodes"},
         << NodeSpec(Absent, "node", "GreetingNode"), NodeSpec("greet", "node", "GreetingNode") >>,
         << >>)
SkippedLaterFlow ==
    Flow({"nodes", "edges"},
         << NodeSpec("greet", "node", "GreetingNode"), NodeSpec("", "agent", "GhostAgent"),
            NodeSpec("hello", "agent", "HelloAgent") >>,
         << Pair("greet", "hello"), OtherEdge, Triple("hello", "greet", <<"reask">>) >>)
GhostAgentFlow ==
    Flow({"nodes", "edges"},
         << NodeSpec("greet", "node", "GreetingNode"), NodeSpec("ghost", "agent", "GhostAgent"),
            NodeSpec("late", "node", "GhostNode") >>,
         << Pair("greet", "ghost") >>)
GhostNodeFlow == Flow({"nodes"}, << NodeSpec("ghost", "node", "GhostNode") >>, << >>)
BadTypeFlow ==
    Flow({"nodes"},
         << NodeSpec("hello", "agent", "HelloAgent"), NodeSpec("tool1", "tool", "GreetingNode") >>,
         << >>)

Flows == {GreetingFlow, AgentFlow, EmptyFlow, ZeroNodeFlow, ZeroNodeEdgesFlow,
          SkippedFirstFlow, NamelessFirstFlow, SkippedLaterFlow, GhostAgentFlow,
          GhostNodeFlow, BadTypeFlow}

\* One parsed <domain>_workflow.yaml: intent -> flow.
WorkflowConfigs ==
    {c \in UNION {[I -> Flows] : I \in SUBSET {"greeting", "qa"}} :
        "qa" \in DOMAIN c => c["qa"] \in {AgentFlow, EmptyFlow}}

\* The workflow files that exist: domain -> parsed file.
WorkflowFiles == UNION {[D -> WorkflowConfigs] : D \in SUBSET {"hello", "dealer"}}

ConfigError(domain) == [status |-> "raise", error |-> "ConfigError", node |-> None, domain |-> domain]
NodeError(node, domain) == [status |-> "raise", error |-> "NodeError", node |-> node, domain |-> domain]
KeyError(domain) == [status |-> "raise", error |-> "KeyError", node |-> None, domain |-> domain]

\* A load_config that reads only the named domain's file.
LoadConfigNoFallback(files, domain) ==
    LET d == IF Truthy(domain) THEN domain ELSE builder_default_domain
    IN  IF d \notin DOMAIN files THEN ConfigError(d)
        ELSE [status |-> "ok", file |-> d, config |-> files[d]]

\* LangGraphBuilder.load_config (langgraph_builder.py:26-54): the named domain's
\* file, else the default domain's file, else ConfigError.
LoadConfig(files, domain) ==
    LET d == IF Truthy(domain) THEN domain ELSE builder_default_domain
        path == IF d \in DOMAIN files THEN d ELSE builder_default_domain
    IN  IF path \notin DOMAIN files THEN ConfigError(d)
        ELSE [status |-> "ok", file |-> path, config |-> files[path]]

\* A resolver that hands out a handler for any class name.
ResolveHandlerUnchecked(regs, node_type, class_name) ==
    [status |-> "ok", handler |-> [type |-> node_type, class |-> class_name, entry |-> "run"]]

\* LangGraphBuilder._resolve_handler (langgraph_builder.py:118-137)
ResolveHandler(regs, node_type, class_name) ==
    IF node_type = "agent"
    THEN IF RegistryGet(regs.agent, class_name) = None
         THEN [status |-> "raise", handler |-> None]
         ELSE [status |-> "ok", handler |-> [type |-> "agent", class |-> class_name, entry |-> "run"]]
    ELSE IF node_type = "node"
    THEN IF class_name = "ReflectionNode"
         THEN [status |-> "ok", handler |-> [type |-> "node", class |-> class_name, entry |-> "run"]]
         ELSE IF class_name = "FeedbackManager"
         THEN [status |-> "ok", handler |-> [type |-> "node", class |-> class_name, entry |-> "collect_feedback"]]
         ELSE IF RegistryGet(regs.node, class_name) = None
              THEN [status |-> "raise", handler |-> None]
              ELSE [status |-> "ok", handler |-> [type |-> "node", class |-> class_name, entry |-> "execute"]]
    ELSE [status |-> "raise", handler |-> None]

\* StateGraph(dict) before anything is added (langgraph_builder.py:67)
EmptyGraph == [nodes |-> EmptyMap, edges |-> {}, branches |-> << >>, entry |-> None]

\* The node loop (langgraph_builder.py:74-93) from entry i on: an entry without
\* name, type or class is skipped; a handler that cannot be resolved raises
\* NodeError naming the node and the domain.
RECURSIVE AddNodes(_, _, _, _, _)
AddNodes(regs, nodes, domain, i, g) ==
    IF i > Len(nodes) THEN [status |-> "ok", graph |-> g]
    ELSE LET node == nodes[i]
         IN  IF ~Truthy(node.name) \/ ~Truthy(node.type) \/ ~Truthy(node.class)
             THEN AddNodes(regs, nodes, domain, i + 1, g)
             ELSE LET h == ResolveHandler(regs, node.type, node.class)
                  IN  IF h.status = "raise" THEN NodeError(node.name, domain)
                      ELSE AddNodes(regs, nodes, domain, i + 1,
                                    [g EXCEPT !.nodes = @ @@ (node.name :> h.handler)])

\* cond_str.replace("if:", "").strip() (langgraph_builder.py:103)
CondKey(cond) == Strip(SelectSeq(cond, LAMBDA t : t # "if:"))

\* The edge loop (langgraph_builder.py:95-108) from entry i on.
RECURSIVE AddEdges(_, _, _)
AddEdges(edges, i, g) ==
    IF i > Len(edges) THEN g
    ELSE LET e == edges[i]
         IN  IF e.shape = "pair"
             THEN AddEdges(edges, i + 1, [g EXCEPT !.edges = @ \cup {<<e.src, e.dst>>}])
             ELSE IF e.shape = "triple" /\ (\E k \in 1..Len(e.cond) : e.cond[k] = "if:")
             THEN AddEdges(edges, i + 1,
                           [g EXCEPT !.branches =
                               Append(@, [src |-> e.src, key |-> CondKey(e.cond), dst |-> e.dst])])
             ELSE AddEdges(edges, i + 1, g)

\* if nodes: g.set_entry_point(nodes[0]["name"]) (langgraph_builder.py:110-112)
SetEntryPoint(nodes, g, domain) ==
    IF Len(nodes) = 0 THEN [status |-> "ok", graph |-> g]
    ELSE IF nodes[1].name = Absent THEN KeyError(domain)
    ELSE [status |-> "ok", graph |-> [g EXCEPT !.entry = nodes[1].name]]

\* LangGraphBuilder.build_graph (langgraph_builder.py:57-115).  The result
\* records which file was read (file) besides the graph or the error.
BuildGraph(files, regs, intent, domain) ==
    LET loaded == LoadConfig(files, domain)
    IN  IF loaded.status = "raise" THEN loaded @@ [file |-> None]
        ELSE LET flow == IF intent \in DOMAIN loaded.config THEN loaded.config[intent] ELSE EmptyFlow
             IN  IF flow.keys = {} THEN ConfigError(domain) @@ [file |-> loaded.file]
                 ELSE LET added == AddNodes(regs, flow.nodes, domain, 1, EmptyGraph)
                      IN  IF added.status = "raise" THEN added @@ [file |-> loaded.file]
                          ELSE SetEntryPoint(flow.nodes, AddEdges(flow.edges, 1, added.graph), domain)
                                  @@ [file |-> loaded.file]

-----------------------------------------------------------------------------
(* Specification of the builder alone: one build_graph call on drawn inputs *)

BuildIntents == {"greeting", "qa", "refund"}

BuilderInit ==
    /\ intent_configs = IntentTables
    /\ rcall = [query |-> << >>, domain |-> None, llm |-> [kind |-> "raise", intent |-> Absent, confidence |-> << >>]]
    /\ rret = NotReturned
    /\ workflows \in WorkflowFiles
    /\ registries = BootRegistries
    /\ bcall \in [intent : BuildIntents, domain : DomainArgs]
    /\ bret = NotReturned
    /\ store = EmptyMap
    /\ req = EmptyMap
    /\ served = 0
    /\ StepsIdle

BuilderBuild ==
    /\ bret = NotReturned
    /\ bret' = BuildGraph(workflows, registries, bcall.intent, bcall.domain)
    /\ UNCHANGED <<workflows, registries, bcall, routerVars, pipelineVars, stepVars>>

-----------------------------------------------------------------------------
(* Specification of the router alone: one classify_intent call on drawn inputs *)

\* The router of a specification that makes no classify_intent call of its own.
RouterIdle ==
    /\ rcall = [query |-> << >>, domain |-> None, llm |-> [kind |-> "raise", intent |-> Absent, confidence |-> << >>]]
    /\ rret = NotReturned

\* The builder of a specification that makes no build_graph call of its own.
BuilderIdle ==
    /\ bcall = [intent |-> "qa", domain |-> None]
    /\ bret = NotReturned

RouterInit ==
    /\ intent_configs \in LoadableConfigs
    /\ rcall \in [query : Queries, domain : DomainArgs, llm : LlmOutcomes]
    /\ rret = NotReturned
    /\ workflows = EmptyMap
    /\ registries = BootRegistries
    /\ BuilderIdle
    /\ store = EmptyMap
    /\ req = EmptyMap
    /\ served = 0
    /\ StepsIdle

RouterClassify ==
    /\ rret = NotReturned
    /\ rret' = ClassifyIntent(intent_configs, rcall.query, rcall.domain, rcall.llm)
    /\ UNCHANGED <<intent_configs, rcall, builderVars, pipelineVars, stepVars>>

vars == <<routerVars, builderVars, pipelineVars, stepVars>>

RouterNext == RouterClassify

SpecRouter == RouterInit /\ [][RouterNext]_vars

BuilderNext == BuilderBuild

SpecBuilder == BuilderInit /\ [][BuilderNext]_vars

-----------------------------------------------------------------------------
(* Specification of the registries alone: register / get / clear calls on the
   four specialized registries (registry.py:65-82), each with a _registry
   dict of its own *)

RegistryKinds == {"agent", "tool", "node", "memory"}
RegistryNames == {"x", "HelloAgent", "ghost"}
RegisteredNames == {"x"}
Components == {"A", "B"}

RegistryInit ==
    /\ intent_configs = IntentTables
    /\ workflows = EmptyMap
    /\ registries = BootRegistries
    /\ RouterIdle
    /\ BuilderIdle
    /\ store = EmptyMap
    /\ req = EmptyMap
    /\ served = 0
    /\ fcall = NoCall
    /\ fret = NotReturned
    /\ ncall = NoCall
    /\ nret = NotReturned
    /\ mret = NotReturned
    /\ kret = [op |-> "none", kind |-> None, name |-> None, component |-> None,
               override |-> FALSE, status |-> "ok", error |-> None, result |-> None]
    /\ chat = NoCall

\* <Kind>Registry.register(name, component, override)
RegisterCall(kind) ==
    /\ \E name \in RegisteredNames, component \in Components, override \in BOOLEAN :
          LET res == Register(registries[kind], name, component, override)
          IN  /\ registries' = [registries EXCEPT ![kind] = res.reg]
              /\ kret' = [op |-> "register", kind |-> kind, name |-> name,
                          component |-> component, override |-> override,
                          status |-> res.status, error |-> res.error, result |-> None]
    /\ UNCHANGED <<workflows, bcall, bret, fcall, fret, ncall, nret, mret, chat,
                   routerVars, pipelineVars>>

\* <Kind>Registry.get(name)
GetCall(kind) ==
    /\ \E name \in RegistryNames :
          kret' = [op |-> "get", kind |-> kind, name |-> name, component |-> None,
                   override |-> FALSE, status |-> "ok", error |-> None,
                   result |-> RegistryGet(registries[kind], name)]
    /\ UNCHANGED <<fcall, fret, ncall, nret, mret, chat, routerVars, builderVars, pipelineVars>>

\* <Kind>Registry.clear()
ClearCall(kind) ==
    /\ registries' = [registries EXCEPT ![kind] = RegistryClear(registries[kind])]
    /\ kret' = [op |-> "clear", kind |-> kind, name |-> None, component |-> None,
                override |-> FALSE, status |-> "ok", error |-> None, result |-> None]
    /\ UNCHANGED <<workflows, bcall, bret, fcall, fret, ncall, nret, mret, chat,
                   routerVars, pipelineVars>>

RegistryNext ==
    \E kind \in RegistryKinds :
        \/ RegisterCall(kind)
        \/ GetCall(kind)
        \/ ClearCall(kind)

SpecRegistry == RegistryInit /\ [][RegistryNext]_vars

-----------------------------------------------------------------------------
(* Feedback step: src/orchestrator/feedback_manager.py.  Scores are kept in
   hundredths (0.5 = 50, 0.8 = 80, 1.0 = 100). *)

\* The score entry of the inputs: missing, a number, or text that float()
\* rejects.
NoScore == [kind |-> "absent", value |-> 0]
ScoreInputs ==
    {NoScore, [kind |-> "text", value |-> 0]} \cup [kind : {"number"}, value : 0..100]

DecisionInputs == {Absent, "ok", "reask", "error"}

\* persist_func: not given, a value that is not callable, or a function
\* (plain or async) that works or fails.
PersistFuncs == {"none", "not_callable", "sync_ok", "sync_raise", "async_ok", "async_raise"}

\* A threshold policy that sends the boundary scores one action down.
DecideNextActionStrict(decision, score) ==
    IF decision = "reask" \/ score <= 50 THEN "retry"
    ELSE IF 50 < score /\ score <= 80 THEN "review"
    ELSE "proceed"

\* FeedbackManager._decide_next_action (feedback_manager.py:91-100)
DecideNextAction(decision, score) ==
    IF decision = "reask" \/ score < 50 THEN "retry"
    ELSE IF 50 <= score /\ score < 80 THEN "review"
    ELSE "proceed"

\* FeedbackManager._persist_async (feedback_manager.py:81-89): the callback is
\* called and awaited when it returns an awaitable; a value that is not
\* callable is logged and left alone.
PersistAsync(persist_func) ==
    IF persist_func = "not_callable" THEN [status |-> "ok", persisted |-> FALSE]
    ELSE IF persist_func \in {"sync_raise", "async_raise"}
    THEN [status |-> "raise", persisted |-> FALSE]
    ELSE [status |-> "ok", persisted |-> TRUE]

\* FeedbackManager.collect_feedback (feedback_manager.py:22-78).  persisted
\* records whether the callback stored the record.
CollectFeedback(persist_func, inputs) ==
    IF inputs.score.kind = "text"
    THEN [status |-> "raise", error |-> "ValueError", context |-> NoCall,
          next_action |-> None, feedback |-> NoCall, persisted |-> FALSE]
    ELSE LET decision == IF inputs.decision = Absent THEN "ok" ELSE inputs.decision
             score == IF inputs.score.kind = "absent" THEN 80 ELSE inputs.score.value
             feedback_entry == [session_id |-> "unknown", decision |-> decision,
                                score |-> score, comment |-> "", source |-> "system",
                                timestamp |-> "utcnow"]
             stored == IF persist_func # "none" THEN PersistAsync(persist_func)
                       ELSE [status |-> "ok", persisted |-> FALSE]
         IN  IF stored.status = "raise"
             THEN [status |-> "raise", error |-> "NodeError", context |-> feedback_entry,
                   next_action |-> None, feedback |-> NoCall, persisted |-> FALSE]
             ELSE [status |-> "recorded", error |-> None, context |-> NoCall,
                   next_action |-> DecideNextAction(decision, score),
                   feedback |-> feedback_entry, persisted |-> stored.persisted]

\* One collect_feedback call on drawn inputs.
FeedbackInit ==
    /\ intent_configs = IntentTables
    /\ RouterIdle
    /\ workflows = EmptyMap
    /\ registries = BootRegistries
    /\ BuilderIdle
    /\ store = EmptyMap
    /\ req = EmptyMap
    /\ served = 0
    /\ fcall \in [persist_func : PersistFuncs,
                  inputs : [decision : DecisionInputs, score : ScoreInputs]]
    /\ fret = NotReturned
    /\ ncall = NoCall
    /\ nret = NotReturned
    /\ mret = NotReturned
    /\ kret = NotReturned
    /\ chat = NoCall

FeedbackCollect ==
    /\ fret = NotReturned
    /\ fret' = CollectFeedback(fcall.persist_func, fcall.inputs)
    /\ UNCHANGED <<fcall, ncall, nret, mret, kret, chat, routerVars, builderVars, pipelineVars>>

FeedbackNext == FeedbackCollect

SpecFeedback == FeedbackInit /\ [][FeedbackNext]_vars

-----------------------------------------------------------------------------
(* Graph Execution Engine: the compiled graph that run_graph invokes
   (orchestrator_impl.py:88-96), with the semantics of spec section 4.3 *)

\* Most node executions one graph run may take in the model.
MaxSteps == 4

\* graph.compile(): the graph is executable when it has an entry point that is
\* one of its nodes and every edge joins nodes of the graph.
ValidGraph(g) ==
    /\ g.entry \in DOMAIN g.nodes
    /\ \A e \in g.edges : e[1] \in DOMAIN g.nodes /\ e[2] \in DOMAIN g.nodes
    /\ \A k \in 1..Len(g.branches) :
          g.branches[k].src \in DOMAIN g.nodes /\ g.branches[k].dst \in DOMAIN g.nodes

\* A merge that keeps the prior value of a key the Step Result also has.
MergeKeepsPrior(state, result) == state @@ result

\* Shallow, right-biased merge of a Step Result into the running state.
Merge(state, result) == result @@ state

\* An engine that starts the graph again at its entry point when a Step
\* Result says next_action = retry.
NextNodeAutoRetry(g, cur, result) ==
    LET cond == {k \in 1..Len(g.branches) :
                    g.branches[k].src = cur /\ \E key \in DOMAIN result : g.branches[k].key = <<key>>}
        plain == {e \in g.edges : e[1] = cur}
    IN  IF "next_action" \in DOMAIN result /\ result["next_action"] = <<"retry">> THEN g.entry
        ELSE IF cond # {} THEN g.branches[Min(cond)].dst
        ELSE IF plain # {} THEN (CHOOSE e \in plain : TRUE)[2]
        ELSE None

\* An engine that stops after the node it ran, whatever edges the node has.
NextNodeNone(g, cur, result) == None

\* An edge selection that takes the unconditional edge whenever there is one.
NextNodePlainFirst(g, cur, result) ==
    LET cond == {k \in 1..Len(g.branches) :
                    g.branches[k].src = cur /\ \E key \in DOMAIN result : g.branches[k].key = <<key>>}
        plain == {e \in g.edges : e[1] = cur}
    IN  IF plain # {} THEN (CHOOSE e \in plain : TRUE)[2]
        ELSE IF cond # {} THEN g.branches[Min(cond)].dst
        ELSE None

\* The node that runs after cur produced result: the destination of a
\* conditional edge whose predicate-key is in the result, else the destination
\* of an unconditional edge, else none.
NextNode(g, cur, result) ==
    LET cond == {k \in 1..Len(g.branches) :
                    g.branches[k].src = cur /\ \E key \in DOMAIN result : g.branches[k].key = <<key>>}
        plain == {e \in g.edges : e[1] = cur}
    IN  IF cond # {} THEN g.branches[Min(cond)].dst
        ELSE IF plain # {} THEN (CHOOSE e \in plain : TRUE)[2]
        ELSE None

\* What a node handler hands back: a Step Result (values are texts).
StepResults == {("reply" :> <<"h", "i">>), ("reask" :> <<"y">>) @@ ("reply" :> <<"?">>)}

\* What the running state holds for the feedback node: a reask decision, a
\* middling score, or neither key.
FeedbackNodeInputs ==
    {[decision |-> "reask", score |-> NoScore],
     [decision |-> "ok", score |-> [kind |-> "number", value |-> 60]],
     [decision |-> Absent, score |-> NoScore]}

\* The Step Result of a node bound to FeedbackManager().collect_feedback
\* (langgraph_builder.py:132-133, feedback_manager.py:74-78): no persistence
\* callback is configured.
FeedbackStepResults ==
    {("status" :> <<CollectFeedback("none", i).status>>)
        @@ ("next_action" :> <<CollectFeedback("none", i).next_action>>)
        @@ ("feedback" :> <<CollectFeedback("none", i).feedback.decision>>) :
     i \in FeedbackNodeInputs}

\* The Step Results the handler of a node can hand back.
HandlerResults(handler) ==
    IF handler.entry = "collect_feedback" THEN FeedbackStepResults ELSE StepResults

-----------------------------------------------------------------------------
(* Orchestration Pipeline: src/orchestrator/impl/orchestrator_impl.py,
   State Bridge: src/orchestrator/state_manager.py, src/memory/redis_memory.py *)

\* Requests one behaviour of the pipeline specification receives.
MaxRequests == 2

Sessions == {"s1", "s2"}
PipelineSessions == {"s1"}

\* The handle_user_query calls that can be in flight together.
Slots == {1}

\* A query argument that is not a string (None).
NoQuery == <<None>>

PipelineQueries == {NoQuery, <<"a">>, <<" ", "B", " ">>}
PipelineDomains == {None, "hello", "dealer", "school"}
PipelineLlmOutcomes ==
    {[kind |-> "raise", intent |-> Absent, confidence |-> <<>>],
     [kind |-> "non_json", intent |-> Absent, confidence |-> <<>>],
     [kind |-> "json_object", intent |-> "greeting", confidence |-> <<5>>]}

\* The workflow directories the pipeline specification starts from.
PipelineWorkflows ==
    {("hello" :> (("greeting" :> GreetingFlow) @@ ("qa" :> AgentFlow))),
     ("hello" :> (("greeting" :> GhostAgentFlow) @@ ("qa" :> AgentFlow)))
        @@ ("dealer" :> ("greeting" :> BadTypeFlow)),
     ("hello" :> (("greeting" :> SkippedLaterFlow) @@ ("qa" :> EmptyFlow)))
        @@ ("dealer" :> (("greeting" :> GhostNodeFlow) @@ ("qa" :> AgentFlow))),
     ("hello" :> ("greeting" :> ZeroNodeFlow))
        @@ ("dealer" :> ("greeting" :> SkippedFirstFlow)),
     ("dealer" :> ("greeting" :> AgentFlow))}

NoRoute == [domain |-> None, intent |-> None, confidence |-> 0, method |-> None, matched_keyword |-> <<>>]
NoBuild == [status |-> "none", error |-> None, node |-> None, domain |-> None, file |-> None]
NoResponse == [pending |-> TRUE]

\* The locals of one handle_user_query call.  failed, error and cause record
\* the step that raised, what handle_user_query received and what run_graph
\* wrapped; loads, saves, builds and llm_calls count the calls made; last, prev
\* and out record the node that ran last, the state it was given and its Step
\* Result; trace lists the steps completed so far; before is the State stored
\* for the session when the call was made, inputs the initial state handed to
\* the graph, written the keys the Step Results of the run carried.
IdleFrame ==
    [pc |-> "idle", session_id |-> None, query |-> << >>, domain |-> None,
     clean_query |-> << >>, route |-> NoRoute, intent |-> None, resolved_domain |-> None,
     state |-> EmptyMap, build |-> NoBuild, graph |-> EmptyGraph, cur |-> None,
     run |-> EmptyMap, invoked |-> << >>, result |-> EmptyMap, final |-> EmptyMap,
     memory_updated |-> FALSE, failed |-> "", error |-> "", cause |-> "",
     response |-> NoResponse, loads |-> 0, saves |-> 0, builds |-> 0, llm_calls |-> 0,
     last |-> None, prev |-> EmptyMap, out |-> EmptyMap, trace |-> << >>,
     before |-> EmptyMap, inputs |-> EmptyMap, written |-> {}]

\* An except clause that lets everything but the framework's own errors pass.
CaughtOnlyFrameworkErrors(kind) == kind \in {"NodeError", "ConfigError", "MemoryError"}

\* except Exception (orchestrator_impl.py:71): every exception kind is caught.
Caught(kind) == TRUE

\* A step of handle_user_query raised kind (orchestrator_impl.py:42-73).
Fail(f, step, kind) ==
    [f EXCEPT !.pc = IF Caught(kind) THEN "on_error" ELSE "escaped",
              !.failed = step, !.error = kind]

\* A step of run_graph raised cause: it is logged and raised again as
\* NodeError("Graph execution failed.") (orchestrator_impl.py:104-106).
RunGraphFail(f, step, cause) == Fail([f EXCEPT !.cause = cause], step, "NodeError")

\* RedisMemory.load_state (redis_memory.py:32-39) and StateManager.load_state
\* (state_manager.py:22-29): the stored State, or {} when the key is missing.
StoredState(sid) == IF sid \in DOMAIN store THEN store[sid] ELSE EmptyMap

\* A load_state that fails for a session nothing is stored for.
BridgeLoadStrict(sid, backend_ok) ==
    IF ~backend_ok \/ sid \notin DOMAIN store
    THEN [status |-> "raise", error |-> "MemoryError", state |-> EmptyMap]
    ELSE [status |-> "ok", error |-> None, state |-> store[sid]]

\* StateManager.load_state (state_manager.py:22-29) over RedisMemory.load_state
\* (redis_memory.py:32-39): a failing backend call is raised as MemoryError.
BridgeLoad(sid, backend_ok) ==
    IF ~backend_ok
    THEN [status |-> "raise", error |-> "MemoryError", state |-> EmptyMap]
    ELSE [status |-> "ok", error |-> None, state |-> StoredState(sid)]

\* A save_state that writes under one key for all the sessions.
BridgeSaveSharedKey(sid, state, backend_ok) ==
    IF ~backend_ok
    THEN [status |-> "raise", error |-> "MemoryError", store |-> store]
    ELSE [status |-> "ok", error |-> None,
          store |-> [x \in DOMAIN store \cup {sid} |-> state]]

\* A save_state that adds the State to what is stored for the session.
BridgeSaveMerging(sid, state, backend_ok) ==
    IF ~backend_ok
    THEN [status |-> "raise", error |-> "MemoryError", store |-> store]
    ELSE [status |-> "ok", error |-> None,
          store |-> (sid :> (state @@ StoredState(sid))) @@ store]

\* StateManager.save_state (state_manager.py:31-37) over RedisMemory.save_state
\* (redis_memory.py:41-48): the State replaces what is stored for the session.
BridgeSave(sid, state, backend_ok) ==
    IF ~backend_ok
    THEN [status |-> "raise", error |-> "MemoryError", store |-> store]
    ELSE [status |-> "ok", error |-> None, store |-> (sid :> state) @@ store]

\* RedisMemory.clear_state (redis_memory.py:50-60): the session's keys are
\* deleted; a failing backend call is logged and swallowed.
BridgeClear(sid, backend_ok) ==
    IF ~backend_ok
    THEN [status |-> "ok", error |-> None, store |-> store]
    ELSE [status |-> "ok", error |-> None,
          store |-> [x \in DOMAIN store \ {sid} |-> store[x]]]

\* A pipeline that saves the state again after it saved it.
AfterSavesTwice(step) ==
    CASE step = "pre_process" -> "classify"
      [] step = "classify" -> "load_state"
      [] step = "load_state" -> "build_graph"
      [] step = "build_graph" -> "compile"
      [] step = "compile" -> "invoke"
      [] step = "run_graph" -> "update_memory"
      [] step = "update_memory" -> "post_process"
      [] step = "post_process" -> "save_state"
      [] step = "save_state" -> "save_state"

\* A pipeline that saves the state before the post-process hook runs.
AfterSaveBeforePostProcess(step) ==
    CASE step = "pre_process" -> "classify"
      [] step = "classify" -> "load_state"
      [] step = "load_state" -> "build_graph"
      [] step = "build_graph" -> "compile"
      [] step = "compile" -> "invoke"
      [] step = "run_graph" -> "update_memory"
      [] step = "update_memory" -> "save_state"
      [] step = "save_state" -> "post_process"
      [] step = "post_process" -> "done"

\* A pipeline that builds the graph before it loads the state.
AfterBuildBeforeLoad(step) ==
    CASE step = "pre_process" -> "classify"
      [] step = "classify" -> "build_graph"
      [] step = "build_graph" -> "load_state"
      [] step = "load_state" -> "compile"
      [] step = "compile" -> "invoke"
      [] step = "run_graph" -> "update_memory"
      [] step = "update_memory" -> "post_process"
      [] step = "post_process" -> "save_state"
      [] step = "save_state" -> "done"

\* The step that follows a completed step: the statements of
\* handle_user_query (orchestrator_impl.py:44-69) and of run_graph
\* (orchestrator_impl.py:83-102) in program order.
After(step) ==
    CASE step = "pre_process" -> "classify"
      [] step = "classify" -> "load_state"
      [] step = "load_state" -> "build_graph"
      [] step = "build_graph" -> "compile"
      [] step = "compile" -> "invoke"
      [] step = "run_graph" -> "update_memory"
      [] step = "update_memory" -> "post_process"
      [] step = "post_process" -> "save_state"
      [] step = "save_state" -> "done"

\* An update_memory that lets the failure of the vector store pass.
UpdateMemoryPropagates(f, ok) ==
    IF ok THEN [f EXCEPT !.pc = After("update_memory"), !.memory_updated = TRUE,
                         !.trace = Append(@, "update_memory")]
    ELSE RunGraphFail(f, "update_memory", "MemoryError")

\* StateManager.update_memory (state_manager.py:65-71) as run_graph calls it
\* (orchestrator_impl.py:100): a failing vector store is logged and swallowed.
UpdateMemoryOutcome(f, ok) ==
    [f EXCEPT !.pc = After("update_memory"), !.memory_updated = ok,
              !.trace = Append(@, "update_memory")]

\* An initial state that leaves the loaded State out.
InputsFresh(query, domain, state) == ("query" :> query) @@ ("domain" :> <<domain>>)

\* inputs = {"query": query, "domain": domain, **state}
\* (orchestrator_impl.py:91): a key of the loaded state replaces the same key
\* written before it.
Inputs(query, domain, state) == state @@ ("query" :> query) @@ ("domain" :> <<domain>>)

\* handle_user_query is called (orchestrator_impl.py:30-40) with a session
\* id, a query and a domain of the given sets.
ReceiveOn(r, sids, queries, domains) ==
    /\ req[r].pc = "idle"
    /\ served < MaxRequests
    /\ \E sid \in sids, q \in queries, d \in domains :
          req' = [req EXCEPT ![r] = [IdleFrame EXCEPT !.pc = "pre_process", !.session_id = sid,
                                                      !.query = q, !.domain = d,
                                                      !.before = StoredState(sid)]]
    /\ served' = served + 1
    /\ UNCHANGED <<store, routerVars, builderVars, stepVars>>

\* handle_user_query is called (orchestrator_impl.py:30-40).  The requests of
\* the sequential pipeline are turns of one session; requests on several
\* sessions are those of the concurrent specifications.
Receive(r) == ReceiveOn(r, PipelineSessions, PipelineQueries, PipelineDomains)

\* pre_process (orchestrator_impl.py:44, 109-111): query.strip().
PreProcess(r) ==
    /\ req[r].pc = "pre_process"
    /\ req' = [req EXCEPT ![r] =
                  IF req[r].query = NoQuery THEN Fail(req[r], "pre_process", "AttributeError")
                  ELSE [req[r] EXCEPT !.pc = After("pre_process"), !.clean_query = Strip(req[r].query),
                                       !.trace = Append(@, "pre_process")]]
    /\ UNCHANGED <<store, served, routerVars, builderVars, stepVars>>

\* Intent routing (orchestrator_impl.py:48-51).
Classify(r) ==
    /\ req[r].pc = "classify"
    /\ \E llm \in PipelineLlmOutcomes :
          LET res == ClassifyIntent(intent_configs, req[r].clean_query, req[r].domain, llm)
          IN  req' = [req EXCEPT ![r] =
                         IF res.status = "raise"
                         THEN Fail([req[r] EXCEPT !.llm_calls = res.llm_calls], "classify", res.error)
                         ELSE [req[r] EXCEPT !.pc = After("classify"), !.route = res.route,
                                        !.trace = Append(@, "classify"),
                                        !.intent = res.route.intent,
                                        !.resolved_domain = res.route.domain,
                                        !.llm_calls = res.llm_calls]]
    /\ UNCHANGED <<store, served, routerVars, builderVars, stepVars>>

\* run_graph: load prior state (orchestrator_impl.py:83); the backend call may fail.
LoadState(r) ==
    /\ req[r].pc = "load_state"
    /\ \E ok \in BOOLEAN :
          LET res == BridgeLoad(req[r].session_id, ok)
          IN  req' = [req EXCEPT ![r] =
                         IF res.status = "ok"
                         THEN [req[r] EXCEPT !.pc = After("load_state"), !.loads = @ + 1,
                                             !.state = res.state,
                                             !.trace = Append(@, "load_state")]
                         ELSE RunGraphFail([req[r] EXCEPT !.loads = @ + 1], "load_state", res.error)]
    /\ UNCHANGED <<store, served, routerVars, builderVars, stepVars>>

\* run_graph: build the graph (orchestrator_impl.py:87).
Build(r) ==
    /\ req[r].pc = "build_graph"
    /\ LET res == BuildGraph(workflows, registries, req[r].intent, req[r].resolved_domain)
       IN  req' = [req EXCEPT ![r] =
                      IF res.status = "raise"
                      THEN RunGraphFail([req[r] EXCEPT !.builds = @ + 1, !.build = res],
                                        "build_graph", res.error)
                      ELSE [req[r] EXCEPT !.pc = After("build_graph"), !.builds = @ + 1, !.graph = res.graph,
                                     !.trace = Append(@, "build_graph"),
                                     !.build = [NoBuild EXCEPT !.status = "ok", !.file = res.file]]]
    /\ UNCHANGED <<store, served, routerVars, builderVars, stepVars>>

\* run_graph: compile and prepare the inputs (orchestrator_impl.py:88-92);
\* the keys of the loaded state come last in the dict display.
Compile(r) ==
    /\ req[r].pc = "compile"
    /\ req' = [req EXCEPT ![r] =
                  IF ~ValidGraph(req[r].graph) THEN RunGraphFail(req[r], "compile", "ValueError")
                  ELSE [req[r] EXCEPT !.pc = After("compile"), !.cur = req[r].graph.entry,
                                 !.trace = Append(@, "compile"),
                                 !.run = Inputs(req[r].clean_query, req[r].resolved_domain,
                                                req[r].state),
                                 !.inputs = Inputs(req[r].clean_query, req[r].resolved_domain,
                                                   req[r].state)]]
    /\ UNCHANGED <<store, served, routerVars, builderVars, stepVars>>

\* compiled.ainvoke (orchestrator_impl.py:96): the current node's handler
\* runs; it raises, or its Step Result is merged and the next node is chosen.
Invoke(r) ==
    /\ req[r].pc = "invoke"
    /\ Len(req[r].invoked) < MaxSteps
    /\ \/ req' = [req EXCEPT ![r] =
                     RunGraphFail([req[r] EXCEPT !.invoked = Append(@, req[r].cur)], "run_graph", "HandlerError")]
       \/ \E out \in HandlerResults(req[r].graph.nodes[req[r].cur]) :
             LET next == NextNode(req[r].graph, req[r].cur, out)
             IN  req' = [req EXCEPT ![r] =
                            IF next = None
                            THEN [req[r] EXCEPT !.pc = After("run_graph"), !.cur = None,
                                           !.invoked = Append(@, req[r].cur),
                                           !.run = Merge(@, out),
                                           !.result = Merge(req[r].run, out),
                                           !.last = req[r].cur, !.prev = req[r].run,
                                           !.out = out, !.written = @ \cup DOMAIN out,
                                           !.trace = Append(@, "run_graph")]
                            ELSE [req[r] EXCEPT !.cur = next,
                                           !.invoked = Append(@, req[r].cur),
                                           !.run = Merge(@, out),
                                           !.last = req[r].cur, !.prev = req[r].run,
                                           !.out = out, !.written = @ \cup DOMAIN out]]
    /\ UNCHANGED <<store, served, routerVars, builderVars, stepVars>>

\* state_manager.update_memory (orchestrator_impl.py:100, state_manager.py:65-71):
\* a failing vector store is logged and swallowed.
UpdateMemory(r) ==
    /\ req[r].pc = "update_memory"
    /\ \E ok \in BOOLEAN :
          req' = [req EXCEPT ![r] = UpdateMemoryOutcome(req[r], ok)]
    /\ UNCHANGED <<store, served, routerVars, builderVars, stepVars>>

\* post_process (orchestrator_impl.py:58, 113-115): the hook returns the result
\* as it is; an overriding hook may raise.
PostProcess(r) ==
    /\ req[r].pc = "post_process"
    /\ \E ok \in BOOLEAN :
          req' = [req EXCEPT ![r] =
                     IF ok THEN [req[r] EXCEPT !.pc = After("post_process"), !.final = req[r].result,
                                          !.trace = Append(@, "post_process")]
                     ELSE Fail(req[r], "post_process", "HookError")]
    /\ UNCHANGED <<store, served, routerVars, builderVars, stepVars>>

\* state_manager.save_state and the return (orchestrator_impl.py:62-69,
\* state_manager.py:31-37, redis_memory.py:41-48); the backend call may fail.
SaveState(r) ==
    /\ req[r].pc = "save_state"
    /\ \E ok \in BOOLEAN :
          LET res == BridgeSave(req[r].session_id, req[r].final, ok)
          IN  /\ store' = res.store
              /\ req' = [req EXCEPT ![r] =
                            IF res.status = "ok"
                            THEN [req[r] EXCEPT !.pc = After("save_state"), !.saves = @ + 1,
                                      !.trace = @ \o <<"save_state", "return">>,
                                      !.response = [domain |-> req[r].resolved_domain,
                                                    intent |-> req[r].intent,
                                                    result |-> req[r].final]]
                            ELSE Fail([req[r] EXCEPT !.saves = @ + 1], "save_state", res.error)]
    /\ UNCHANGED <<served, routerVars, builderVars, stepVars>>

\* The except clause and on_error (orchestrator_impl.py:71-73, 117-125).
OnError(r) ==
    /\ req[r].pc = "on_error"
    /\ req' = [req EXCEPT ![r] =
                  [req[r] EXCEPT !.pc = "done",
                            !.response = [status |-> "error",
                                          session_id |-> req[r].session_id,
                                          domain |-> IF Truthy(req[r].domain) THEN req[r].domain ELSE default_domain,
                                          error |-> req[r].error]]]
    /\ UNCHANGED <<store, served, routerVars, builderVars, stepVars>>

\* The caller has the response; the slot takes the next request.
Finish(r) ==
    /\ req[r].pc = "done"
    /\ req' = [req EXCEPT ![r] = IdleFrame]
    /\ UNCHANGED <<store, served, routerVars, builderVars, stepVars>>

Init ==
    /\ intent_configs \in LoadableConfigs
    /\ workflows \in PipelineWorkflows
    /\ registries = BootRegistries
    /\ RouterIdle
    /\ BuilderIdle
    /\ store = EmptyMap
    /\ req = [r \in Slots |-> IdleFrame]
    /\ served = 0
    /\ StepsIdle

Next ==
    \E r \in Slots :
        \/ Receive(r)
        \/ PreProcess(r)
        \/ Classify(r)
        \/ LoadState(r)
        \/ Build(r)
        \/ Compile(r)
        \/ Invoke(r)
        \/ UpdateMemory(r)
        \/ PostProcess(r)
        \/ SaveState(r)
        \/ OnError(r)
        \/ Finish(r)

Spec == Init /\ [][Next]_vars

-----------------------------------------------------------------------------
(* Specification of the graph run alone: compiled.ainvoke(inputs)
   (orchestrator_impl.py:88-96) on a graph the builder made from a drawn flow *)

EngineFlows == {AgentFlow, ChainFlow, BranchFlow, GreetingFlow, LoopFlow}

\* The graph build_graph makes for the greeting intent of the hello file.
EngineGraph(files) == BuildGraph(files, BootRegistries, "greeting", "hello").graph

\* The call is at its graph run: the graph is built and compiled, the inputs
\* are prepared, the entry node is the node to run.
EngineInit ==
    /\ intent_configs = IntentTables
    /\ workflows \in {("hello" :> ("greeting" :> flow)) : flow \in EngineFlows}
    /\ registries = BootRegistries
    /\ RouterIdle
    /\ BuilderIdle
    /\ store \in {EmptyMap, ("s1" :> ("topic" :> <<"t">>))}
    /\ req = [r \in Slots |->
                 [IdleFrame EXCEPT !.pc = "invoke", !.session_id = "s1",
                                   !.query = <<"a">>, !.clean_query = <<"a">>,
                                   !.domain = "hello", !.resolved_domain = "hello",
                                   !.intent = "greeting",
                                   !.before = StoredState("s1"), !.state = StoredState("s1"),
                                   !.graph = EngineGraph(workflows),
                                   !.cur = EngineGraph(workflows).entry,
                                   !.run = Inputs(<<"a">>, "hello", StoredState("s1")),
                                   !.inputs = Inputs(<<"a">>, "hello", StoredState("s1"))]]
    /\ served = 1
    /\ StepsIdle

EngineNext == \E r \in Slots : Invoke(r)

\* The event loop runs the handler the run is waiting for.
SpecEngine == EngineInit /\ [][EngineNext]_vars /\ WF_vars(EngineNext)

-----------------------------------------------------------------------------
(* Concurrent requests: several handle_user_query coroutines of one
   OrchestratorImpl in flight on the event loop, interleaved at their awaits *)

\* The handle_user_query calls in flight together in the concurrent
\* specifications.
ConcurrentSlots == {1, 2}

\* The requests of the concurrent specifications: a query that a keyword of
\* the hello table classifies as greeting, answered by a one-node workflow.
ConcurrentQueries == {<<"a">>}
ConcurrentDomains == {"hello"}
ConcurrentWorkflows == ("hello" :> ("greeting" :> AgentFlow))

\* The session each slot's caller uses when the callers use sessions of their own.
SessionOf(r) == IF r = 1 THEN "s1" ELSE "s2"

ConcurrentInit ==
    /\ intent_configs = IntentTables
    /\ workflows = ConcurrentWorkflows
    /\ registries = BootRegistries
    /\ RouterIdle
    /\ BuilderIdle
    /\ store = EmptyMap
    /\ req = [r \in ConcurrentSlots |-> IdleFrame]
    /\ served = 0
    /\ StepsIdle

\* handle_user_query is called for the one session all callers share.
ReceiveShared(r) == ReceiveOn(r, {"s1"}, ConcurrentQueries, ConcurrentDomains)

\* handle_user_query is called for the session of the slot's own caller.
ReceiveOwn(r) == ReceiveOn(r, {SessionOf(r)}, ConcurrentQueries, ConcurrentDomains)

\* Every coroutine advances by one awaited step at a time; nothing orders the
\* steps of different coroutines.
RaceNext ==
    \E r \in ConcurrentSlots :
        \/ ReceiveShared(r)
        \/ PreProcess(r)
        \/ Classify(r)
        \/ LoadState(r)
        \/ Build(r)
        \/ Compile(r)
        \/ Invoke(r)
        \/ UpdateMemory(r)
        \/ PostProcess(r)
        \/ SaveState(r)
        \/ OnError(r)
        \/ Finish(r)

SpecRace == ConcurrentInit /\ [][RaceNext]_vars

IsolatedNext ==
    \E r \in ConcurrentSlots :
        \/ ReceiveOwn(r)
        \/ PreProcess(r)
        \/ Classify(r)
        \/ LoadState(r)
        \/ Build(r)
        \/ Compile(r)
        \/ Invoke(r)
        \/ UpdateMemory(r)
        \/ PostProcess(r)
        \/ SaveState(r)
        \/ OnError(r)
        \/ Finish(r)

SpecIsolated == ConcurrentInit /\ [][IsolatedNext]_vars

-----------------------------------------------------------------------------
(* Chat controller: src/api/controllers/chat_controller.py, the caller of
   handle_user_query behind POST /chat/ (src/api/routes/chat_route.py) *)

\* The arguments of the handle_chat calls: the session id and the domain are
\* optional (None or empty), the query is a string (chat_route.py:9-12).
ChatRequests ==
    [session_id : {None, "", "s1"},
     query : {<<"a">>, <<" ", "B", " ">>},
     domain : {None, "", "dealer"}]

\* str(uuid.uuid4()) (chat_controller.py:18): an id no earlier call had.
NewSessionId(n) ==
    CASE n = 0 -> "u1"
      [] n = 1 -> "u2"
      [] OTHER -> "u3"

\* handle_chat up to the awaited call (chat_controller.py:9-26): a missing
\* session id is generated, a missing domain becomes "hello", and
\* handle_user_query is called with them.
ChatHandle(r) ==
    /\ IF chat = NoCall THEN TRUE ELSE chat.pc = "returned"
    /\ req[r].pc = "idle"
    /\ served < MaxRequests
    /\ \E c \in ChatRequests :
          LET sid == IF Truthy(c.session_id) THEN c.session_id ELSE NewSessionId(served)
              dom == IF Truthy(c.domain) THEN c.domain ELSE "hello"
          IN  /\ chat' = [pc |-> "awaiting", given |-> c, session_id |-> sid, query |-> c.query,
                          domain |-> dom, failed |-> "", saves |-> 0, response |-> NoResponse]
              /\ req' = [req EXCEPT ![r] = [IdleFrame EXCEPT !.pc = "pre_process", !.session_id = sid,
                                                          !.query = c.query, !.domain = dom,
                                                          !.before = StoredState(sid)]]
    /\ served' = served + 1
    /\ UNCHANGED <<store, routerVars, builderVars, fcall, fret, ncall, nret, mret, kret>>

\* handle_chat after the awaited call (chat_controller.py:26-45): whatever
\* handle_user_query returned is wrapped as the result of a "success"
\* response; an exception that left handle_user_query gives the "error"
\* response.  failed and saves record how the pipeline call went.
ChatReturn(r) ==
    /\ chat # NoCall
    /\ chat.pc = "awaiting"
    /\ req[r].pc \in {"done", "escaped"}
    /\ chat' = [chat EXCEPT !.pc = "returned", !.failed = req[r].failed, !.saves = req[r].saves,
                            !.response =
                                IF req[r].pc = "done"
                                THEN [session_id |-> chat.session_id, query |-> chat.query,
                                      domain |-> chat.domain, result |-> req[r].response,
                                      status |-> "success"]
                                ELSE [session_id |-> chat.session_id, query |-> chat.query,
                                      domain |-> chat.domain, error |-> req[r].error,
                                      status |-> "error"]]
    /\ req' = [req EXCEPT ![r] = IdleFrame]
    /\ UNCHANGED <<store, served, routerVars, builderVars, fcall, fret, ncall, nret, mret, kret>>

\* One handle_chat call at a time runs the pipeline from its call to its return.
ChatNext ==
    \E r \in Slots :
        \/ ChatHandle(r)
        \/ PreProcess(r)
        \/ Classify(r)
        \/ LoadState(r)
        \/ Build(r)
        \/ Compile(r)
        \/ Invoke(r)
        \/ UpdateMemory(r)
        \/ PostProcess(r)
        \/ SaveState(r)
        \/ OnError(r)
        \/ ChatReturn(r)

SpecChat == Init /\ [][ChatNext]_vars

-----------------------------------------------------------------------------
(* Reflection step: src/orchestrator/reflection_node.py.  Scores are kept in
   hundredths.  The module's logger is a logging.Logger (core/logger.py:7-25)
   whose level is CurrentConfig.LOG_LEVEL. *)

\* DevConfig.LOG_LEVEL and ProdConfig.LOG_LEVEL (core/config.py:53, 59); the
\* active configuration is one of the two (core/config.py:66-72).
LogLevels == {"DEBUG", "INFO"}

\* The numeric order of the logging levels.
LevelNo(level) ==
    CASE level = "DEBUG" -> 1
      [] level = "INFO" -> 2
      [] level = "WARNING" -> 3
      [] level = "ERROR" -> 4

\* logger.info / logger.warning called with keyword arguments
\* (reflection_node.py:32, 69, 78, 101): when the level is enabled the call
\* reaches Logger._log, which takes no such keyword and raises TypeError; a
\* disabled level returns before that.
LogWithKeywords(level, logger_level) ==
    IF LevelNo(level) >= LevelNo(logger_level) THEN "TypeError" ELSE "ok"

\* What llm.apredict gives for the review prompt: it raises, or returns a
\* dict, the text of a JSON object, the text of another JSON value, or text
\* that is not JSON.
EvalOutcomes ==
    [kind : {"raise", "non_json", "json_other"}, decision : {Absent}, score : {<< >>}]
    \cup [kind : {"dict", "json_object"}, decision : {Absent, "ok", "reask"},
          score : {<< >>, <<40>>, <<95>>}]

\* What llm.apredict gives for the clarify prompt.
ClarifyOutcomes == {"raise", "text"}

\* The inputs of run: previous_output and answer, each missing, empty or text.
ReflectionInputs == [previous_output : {Absent, "", "draft"}, answer : {Absent, "final"}]

ReflectionRaise(error, cause, calls) ==
    [status |-> "raise", error |-> error, cause |-> cause, decision |-> None,
     score |-> 0, clarify_question |-> None, llm_calls |-> calls]

ReflectionResult(decision, score, question, calls) ==
    [status |-> "ok", error |-> None, cause |-> None, decision |-> decision,
     score |-> score, clarify_question |-> question, llm_calls |-> calls]

\* ReflectionNode._safe_parse (reflection_node.py:92-106): a dict as it is,
\* the value json.loads gives, or the default after the warning was logged.
ReflectionSafeParse(raw, logger_level) ==
    IF raw.kind \in {"dict", "json_object"}
    THEN [status |-> "ok", is_dict |-> TRUE, decision |-> raw.decision, score |-> raw.score]
    ELSE IF raw.kind = "json_other"
    THEN [status |-> "ok", is_dict |-> FALSE, decision |-> Absent, score |-> << >>]
    ELSE IF LogWithKeywords("WARNING", logger_level) = "TypeError"
    THEN [status |-> "raise", is_dict |-> FALSE, decision |-> Absent, score |-> << >>]
    ELSE [status |-> "ok", is_dict |-> TRUE, decision |-> "ok", score |-> <<80>>]

\* ReflectionNode._generate_clarification (reflection_node.py:82-90): the
\* completion's text, or the stock question when the completion fails.
GenerateClarification(clarify) ==
    IF clarify = "raise" THEN [status |-> "ok", question |-> "stock"]
    ELSE [status |-> "ok", question |-> "llm"]

\* ReflectionNode.run (reflection_node.py:19-79)
ReflectionRun(inputs, logger_level, eval, clarify) ==
    LET answer == IF Truthy(inputs.previous_output) THEN inputs.previous_output
                  ELSE inputs.answer
    IN  IF ~Truthy(answer)
        THEN IF LogWithKeywords("WARNING", logger_level) = "TypeError"
             THEN ReflectionRaise("TypeError", "logger", 0)
             ELSE ReflectionResult("ok", 100, None, 0)
        ELSE IF eval.kind = "raise" THEN ReflectionRaise("NodeError", "completion", 1)
        ELSE LET parsed == ReflectionSafeParse(eval, logger_level)
             IN  IF parsed.status = "raise" THEN ReflectionRaise("NodeError", "logger", 1)
                 ELSE IF ~parsed.is_dict THEN ReflectionRaise("AttributeError", "parsed.get", 1)
                 ELSE IF parsed.decision = "reask"
                 THEN LET asked == GenerateClarification(clarify)
                      IN  IF LogWithKeywords("INFO", logger_level) = "TypeError"
                          THEN ReflectionRaise("TypeError", "logger", 2)
                          ELSE ReflectionResult("reask",
                                                IF parsed.score = << >> THEN 60 ELSE parsed.score[1],
                                                asked.question, 2)
                 ELSE IF LogWithKeywords("INFO", logger_level) = "TypeError"
                 THEN ReflectionRaise("TypeError", "logger", 1)
                 ELSE ReflectionResult("ok",
                                       IF parsed.score = << >> THEN 90 ELSE parsed.score[1],
                                       None, 1)

\* One ReflectionNode.run call on drawn inputs and completion outcomes.
ReflectionInit ==
    /\ intent_configs = IntentTables
    /\ RouterIdle
    /\ workflows = EmptyMap
    /\ registries = BootRegistries
    /\ BuilderIdle
    /\ store = EmptyMap
    /\ req = EmptyMap
    /\ served = 0
    /\ fcall = NoCall
    /\ fret = NotReturned
    /\ ncall \in [inputs : ReflectionInputs, log_level : LogLevels,
                  eval : EvalOutcomes, clarify : ClarifyOutcomes]
    /\ nret = NotReturned
    /\ mret = NotReturned
    /\ kret = NotReturned
    /\ chat = NoCall

ReflectionEvaluate ==
    /\ nret = NotReturned
    /\ nret' = ReflectionRun(ncall.inputs, ncall.log_level, ncall.eval, ncall.clarify)
    /\ UNCHANGED <<fcall, fret, ncall, mret, kret, chat, routerVars, builderVars, pipelineVars>>

ReflectionNext == ReflectionEvaluate

SpecReflection == ReflectionInit /\ [][ReflectionNext]_vars

-----------------------------------------------------------------------------
(* State Bridge: StateManager over the active memory backend *)

\* The States a caller hands to save_state.
BridgeStates ==
    { EmptyMap,
      ("answer" :> "a"),
      ("answer" :> "b") @@ ("topic" :> "t") }

\* The record of the last State Bridge call. live and saved are history: the
\* sessions with a completed save and no completed deletion since, and the
\* sessions that ever had a completed save.
BridgeIdle ==
    [op |-> "none", sid |-> None, backend_ok |-> TRUE, status |-> "ok",
     error |-> None, state |-> EmptyMap, prev |-> "none", prev_sid |-> None,
     prev_ok |-> TRUE, live |-> {}, saved |-> {}]

\* The record of the call op on sid with outcome res, after the call mret
\* describes.
BridgeFrame(op, sid, backend_ok, res, state, live, saved) ==
    [op |-> op, sid |-> sid, backend_ok |-> backend_ok, status |-> res.status,
     error |-> res.error, state |-> state, prev |-> mret.op,
     prev_sid |-> mret.sid, prev_ok |-> mret.backend_ok,
     live |-> live, saved |-> saved]

BridgeInit ==
    /\ intent_configs = IntentTables
    /\ RouterIdle
    /\ workflows = EmptyMap
    /\ registries = BootRegistries
    /\ BuilderIdle
    /\ store = EmptyMap
    /\ req = EmptyMap
    /\ served = 0
    /\ fcall = NoCall
    /\ fret = NotReturned
    /\ ncall = NoCall
    /\ nret = NotReturned
    /\ mret = BridgeIdle
    /\ kret = NotReturned
    /\ chat = NoCall

\* await state_manager.load_state(sid) (state_manager.py:22-29).
LoadStateCall(sid) ==
    /\ \E ok \in BOOLEAN :
          LET res == BridgeLoad(sid, ok)
          IN  mret' = BridgeFrame("load", sid, ok, res, res.state, mret.live, mret.saved)
    /\ UNCHANGED <<fcall, fret, ncall, nret, kret, chat, routerVars, builderVars, pipelineVars>>

\* await state_manager.save_state(sid, state) (state_manager.py:31-37).
SaveStateCall(sid) ==
    /\ \E ok \in BOOLEAN, state \in BridgeStates :
          LET res == BridgeSave(sid, state, ok)
          IN  /\ store' = res.store
              /\ mret' = BridgeFrame("save", sid, ok, res, state,
                                     IF ok THEN mret.live \cup {sid} ELSE mret.live,
                                     IF ok THEN mret.saved \cup {sid} ELSE mret.saved)
    /\ UNCHANGED <<req, served, fcall, fret, ncall, nret, kret, chat, routerVars, builderVars>>

\* await memory.clear_state(sid) (redis_memory.py:50-60).
ClearStateCall(sid) ==
    /\ \E ok \in BOOLEAN :
          LET res == BridgeClear(sid, ok)
          IN  /\ store' = res.store
              /\ mret' = BridgeFrame("clear", sid, ok, res, EmptyMap,
                                     IF ok THEN mret.live \ {sid} ELSE mret.live,
                                     mret.saved)
    /\ UNCHANGED <<req, served, fcall, fret, ncall, nret, kret, chat, routerVars, builderVars>>

BridgeNext ==
    \E sid \in Sessions :
        \/ LoadStateCall(sid)
        \/ SaveStateCall(sid)
        \/ ClearStateCall(sid)

SpecBridge == BridgeInit /\ [][BridgeNext]_vars

-----------------------------------------------------------------------------
(* Router properties *)

\* The domain the request is resolved to: the requested one when it is
\* configured, otherwise the default domain.
Resolved == IF rcall.domain \in DOMAIN intent_configs THEN rcall.domain ELSE default_domain

RouterReturned == rret # NotReturned

\* The (intent index, keyword index) pairs of the resolved domain's table whose
\* keyword occurs, case-insensitively, in the trimmed query.
Hits ==
    IF Resolved \notin DOMAIN intent_configs THEN {}
    ELSE LET table == intent_configs[Resolved]
         IN  UNION {{<<i, j>> : j \in {k \in 1..Len(table[i].keywords) :
                        Contains(Strip(Lower(rcall.query)), Lower(table[i].keywords[k]))}} :
                    i \in 1..Len(table)}

Before(p, q) == p[1] < q[1] \/ (p[1] = q[1] /\ p[2] <= q[2])

FirstHit == CHOOSE p \in Hits : \A q \in Hits : Before(p, q)

\* C2: a query that contains a keyword of the resolved domain is classified by
\* rule with confidence 1.0 as the intent of the first matching (intent,
\* keyword) pair in declared order, and the completion capability is not
\* called, whatever it would have done.
C2_RuleFirstMatch ==
    (RouterReturned /\ Hits # {}) =>
        /\ rret.status = "ok"
        /\ rret.route.method = "rule"
        /\ rret.route.confidence = 10
        /\ rret.route.intent = intent_configs[Resolved][FirstHit[1]].name
        /\ rret.route.matched_keyword = <<intent_configs[Resolved][FirstHit[1]].keywords[FirstHit[2]]>>
        /\ rret.llm_calls = 0

\* A rule decision taken on the second keyword of the first intent while a later
\* intent matches too and the completion capability would have failed.
C2_Witness ==
    /\ RouterReturned
    /\ Cardinality(Hits) >= 2
    /\ FirstHit = <<1, 2>>
    /\ \E q \in Hits : q[1] = 2
    /\ rcall.llm.kind = "raise"
    /\ rret.status = "ok"
    /\ rret.route.method = "rule"

\* The completion response is an object (or dict) with a non-empty intent.
LlmGivesIntent == rcall.llm.kind \in {"dict", "json_object"} /\ Truthy(rcall.llm.intent)

NoRuleMatch == Resolved \in DOMAIN intent_configs /\ Hits = {}

\* C3 as stated: without a keyword match, any returned completion response
\* gives method=llm and a raising completion gives the default decision.
C3_AnyResponseIsLlm ==
    (RouterReturned /\ NoRuleMatch) =>
        /\ rret.status = "ok"
        /\ rcall.llm.kind # "raise" => rret.route.method = "llm"
        /\ rcall.llm.kind = "raise" =>
              /\ rret.route.method = "default"
              /\ rret.route.intent = "qa"
              /\ rret.route.confidence = 5

\* C3 amended: without a keyword match, a completion response that is an object
\* with a non-empty intent gives method=llm, and a raising completion gives
\* method=default with intent qa and confidence 0.5.
C3_LlmOrDefault ==
    (RouterReturned /\ NoRuleMatch) =>
        /\ rret.status = "ok"
        /\ LlmGivesIntent => rret.route.method = "llm"
        /\ rcall.llm.kind = "raise" =>
              /\ rret.route.method = "default"
              /\ rret.route.intent = "qa"
              /\ rret.route.confidence = 5

C3_Witness ==
    /\ RouterReturned
    /\ NoRuleMatch
    /\ rcall.llm.kind = "json_object"
    /\ rcall.llm.intent = "refund"
    /\ rret.status = "ok"
    /\ rret.route.method = "llm"
    /\ rret.llm_calls = 1

\* C4: a completion response that cannot be parsed as {intent, confidence} is
\* swallowed and the router returns the default fallback {qa, 0.5, default}.
C4_UnparsableIsDefault ==
    (RouterReturned /\ NoRuleMatch /\ rcall.llm.kind \in {"non_json", "json_other"}) =>
        /\ rret.status = "ok"
        /\ rret.route.intent = "qa"
        /\ rret.route.confidence = 5
        /\ rret.route.method = "default"

\* C5 (router part): a request whose domain is absent or not configured is
\* classified in the default domain and classification does not raise.
C5_UnknownDomainFallsBack ==
    (RouterReturned /\ rcall.domain \notin DOMAIN intent_configs) =>
        /\ rret.status = "ok"
        /\ rret.route.domain = default_domain

\* C6: every Route Decision has confidence in [0,1], a method among rule, llm
\* and default, and a configured domain.
C6_RouteDecisionWellFormed ==
    (RouterReturned /\ rret.status = "ok") =>
        /\ rret.route.confidence \in 0..10
        /\ rret.route.method \in {"rule", "llm", "default"}
        /\ rret.route.domain \in DOMAIN intent_configs

-----------------------------------------------------------------------------
(* Builder properties *)

BuilderReturned == bret # NotReturned

\* The domain build_graph was asked for (the default one when none was given).
Named == IF Truthy(bcall.domain) THEN bcall.domain ELSE builder_default_domain

\* Domain d has a workflow file holding a non-empty Graph Spec for the intent.
HasSpec(d) ==
    /\ d \in DOMAIN workflows
    /\ bcall.intent \in DOMAIN workflows[d]
    /\ workflows[d][bcall.intent].keys # {}

IsConfigError == bret.status = "raise" /\ bret.error = "ConfigError"

\* C7 as stated: the named domain's spec for the intent when it exists,
\* otherwise the default domain's spec for the same intent, and a configuration
\* error only when neither domain has one.
C7_IntentLevelFallback ==
    BuilderReturned =>
        /\ HasSpec(Named) => (~IsConfigError /\ bret.file = Named)
        /\ (~HasSpec(Named) /\ HasSpec(builder_default_domain)) =>
              (~IsConfigError /\ bret.file = builder_default_domain)
        /\ IsConfigError => (~HasSpec(Named) /\ ~HasSpec(builder_default_domain))

\* The file load_config reads: the named domain's when it exists, else the
\* default domain's.
FileRead == IF Named \in DOMAIN workflows THEN Named ELSE builder_default_domain

\* C7 amended: build_graph reads the named domain's workflow file when that
\* file exists and the default domain's file otherwise, uses the spec that file
\* holds for the intent, and fails with a configuration error exactly when
\* neither file exists or the file read holds no spec for the intent.
C7_FileLevelFallback ==
    BuilderReturned =>
        /\ FileRead \in DOMAIN workflows => bret.file = FileRead
        /\ IsConfigError <=> ~HasSpec(FileRead)

\* The named domain has no workflow file and the build used the default
\* domain's spec for the intent.
C7_Witness ==
    /\ BuilderReturned
    /\ Named = "dealer"
    /\ "dealer" \notin DOMAIN workflows
    /\ HasSpec(builder_default_domain)
    /\ bret.status = "ok"
    /\ bret.file = builder_default_domain

\* The Graph Spec the build works on, when the file read has an entry for the intent.
SpecSelected == FileRead \in DOMAIN workflows /\ bcall.intent \in DOMAIN workflows[FileRead]
SelectedFlow == workflows[FileRead][bcall.intent]

\* C8 (builder part): a Graph Spec that declares zero nodes, with or without
\* edges, makes build_graph fail with a configuration error.
C8_ZeroNodesRejected ==
    (BuilderReturned /\ SpecSelected /\ Len(SelectedFlow.nodes) = 0) => IsConfigError

\* C9: in every successfully built graph the entry point is the first declared
\* node of the spec and is a node of the graph.
C9_EntryPointIsFirstNode ==
    (BuilderReturned /\ SpecSelected /\ Len(SelectedFlow.nodes) > 0 /\ bret.status = "ok") =>
        /\ bret.graph.entry = SelectedFlow.nodes[1].name
        /\ bret.graph.entry \in DOMAIN bret.graph.nodes

-----------------------------------------------------------------------------
(* Pipeline properties *)

\* The response on_error builds for a request.
ErrorResponse(f) ==
    [status |-> "error", session_id |-> f.session_id,
     domain |-> IF Truthy(f.domain) THEN f.domain ELSE default_domain,
     error |-> f.error]

\* C1: whatever the session id, query and domain, and whichever step fails
\* (pre-process, classify, state load, graph build, graph run, post-process,
\* state save), no exception leaves handle_user_query: the failure reaches the
\* error handler, and the value returned is the structured error
\* {status: "error", session_id, domain, error}.
C1_NeverRaises ==
    \A r \in DOMAIN req :
        LET f == req[r]
        IN  /\ f.pc # "escaped"
            /\ f.failed # "" => f.pc \in {"on_error", "done"}
            /\ f.pc = "done" => f.response # NoResponse
            /\ (f.pc = "done" /\ f.failed # "") => f.response = ErrorResponse(f)
            /\ (f.pc = "done" /\ f.failed = "") => "status" \notin DOMAIN f.response

\* Every earlier step worked, the state save failed, and the call returned
\* the structured error.
C1_Witness ==
    \E r \in DOMAIN req :
        /\ req[r].pc = "done"
        /\ req[r].failed = "save_state"
        /\ req[r].invoked # << >>
        /\ req[r].response = ErrorResponse(req[r])

\* The workflow file a build for the domain reads.
FileFor(domain) ==
    LET d == IF Truthy(domain) THEN domain ELSE builder_default_domain
    IN  IF d \in DOMAIN workflows THEN d ELSE builder_default_domain

\* A build for (intent, domain) finds a non-empty Graph Spec.
HasFlow(intent, domain) ==
    /\ FileFor(domain) \in DOMAIN workflows
    /\ intent \in DOMAIN workflows[FileFor(domain)]
    /\ workflows[FileFor(domain)][intent].keys # {}

FlowFor(intent, domain) == workflows[FileFor(domain)][intent]

\* A Node Spec (an entry with name, type and class) whose class is an agent
\* class absent from the Agent Registry, a node class neither built in nor in
\* the Node Registry, or whose type is unknown.
Unresolvable(node) ==
    /\ Truthy(node.name) /\ Truthy(node.type) /\ Truthy(node.class)
    /\ ~ \/ node.type = "agent" /\ node.class \in DOMAIN registries.agent
         \/ node.type = "node" /\ node.class \in {"ReflectionNode", "FeedbackManager"}
         \/ node.type = "node" /\ node.class \in DOMAIN registries.node

BadNodes(flow) == {i \in 1..Len(flow.nodes) : Unresolvable(flow.nodes[i])}

\* C10: when the Graph Spec a request's build works on has a Node Spec that
\* cannot be resolved, build_graph raises a build error naming that node (the
\* first such one) and the domain, the request ends with the error response
\* after that single build, and no handler has been invoked.
C10_UnresolvableNodeFailsBuild ==
    \A r \in DOMAIN req :
        LET f == req[r]
        IN  (/\ f.builds > 0
             /\ HasFlow(f.intent, f.resolved_domain)
             /\ BadNodes(FlowFor(f.intent, f.resolved_domain)) # {}) =>
                LET flow == FlowFor(f.intent, f.resolved_domain)
                IN  /\ f.build.status = "raise"
                    /\ f.build.error = "NodeError"
                    /\ f.build.node = flow.nodes[Min(BadNodes(flow))].name
                    /\ f.build.domain = f.resolved_domain
                    /\ f.builds = 1
                    /\ f.invoked = << >>
                    /\ f.failed = "build_graph"
                    /\ f.pc \in {"on_error", "done"}
                    /\ f.pc = "done" => f.response = ErrorResponse(f)

\* A request routed to a workflow whose second node names an agent class that
\* is not registered has ended with the error response.
C10_Witness ==
    \E r \in DOMAIN req :
        /\ req[r].pc = "done"
        /\ HasFlow(req[r].intent, req[r].resolved_domain)
        /\ FlowFor(req[r].intent, req[r].resolved_domain) = GhostAgentFlow
        /\ req[r].build.node = "ghost"
        /\ req[r].response = ErrorResponse(req[r])
        /\ req[r].invoked = << >>

\* C11: in every graph build_graph returns, the source and the destination
\* of every attached edge, unconditional or conditional, are nodes that were
\* added to the graph.
C11_EdgesNameGraphNodes ==
    (BuilderReturned /\ bret.status = "ok") =>
        /\ \A e \in bret.graph.edges :
              e[1] \in DOMAIN bret.graph.nodes /\ e[2] \in DOMAIN bret.graph.nodes
        /\ \A k \in 1..Len(bret.graph.branches) :
              /\ bret.graph.branches[k].src \in DOMAIN bret.graph.nodes
              /\ bret.graph.branches[k].dst \in DOMAIN bret.graph.nodes

\* C12: after each node has run, the running state is the shallow
\* right-biased merge of the state the node was given and its Step Result:
\* every key of the Step Result holds the Step Result's value, every key only
\* in the prior state keeps its value, and there is no other key; and
\* merge({a:1,b:2},{b:3,c:4}) = {a:1,b:3,c:4}.
C12_StateIsMerge ==
    /\ Merge(("a" :> 1) @@ ("b" :> 2), ("b" :> 3) @@ ("c" :> 4))
          = ("a" :> 1) @@ ("b" :> 3) @@ ("c" :> 4)
    /\ \A r \in DOMAIN req :
          LET f == req[r]
          IN  f.last # None =>
                 /\ DOMAIN f.run = DOMAIN f.prev \cup DOMAIN f.out
                 /\ \A k \in DOMAIN f.out : f.run[k] = f.out[k]
                 /\ \A k \in DOMAIN f.prev \ DOMAIN f.out : f.run[k] = f.prev[k]

\* A node has run whose Step Result overwrote a key of the prior state with
\* another value, added a key, and left a third key as it was.
C12_Witness ==
    \E r \in DOMAIN req :
        LET f == req[r]
        IN  /\ f.last # None
            /\ \E k \in DOMAIN f.out \cap DOMAIN f.prev : f.prev[k] # f.out[k] /\ f.run[k] = f.out[k]
            /\ DOMAIN f.out \ DOMAIN f.prev # {}
            /\ \E k \in DOMAIN f.prev \ DOMAIN f.out : f.run[k] = f.prev[k]

\* The conditional edges of node whose predicate-key the Step Result holds,
\* and the destinations of its unconditional edges.
MatchingBranches(g, node, out) ==
    {k \in 1..Len(g.branches) :
        g.branches[k].src = node /\ \E key \in DOMAIN out : g.branches[k].key = <<key>>}

PlainSuccessors(g, node) == {e[2] : e \in {x \in g.edges : x[1] = node}}

\* C13: after a node has completed, the node that runs next is the
\* destination of a conditional edge of that node matched by the Step Result
\* when there is one, otherwise the destination of an unconditional edge of
\* that node when there is one, and otherwise the run stops with the current
\* state as the final state.
C13_NextNodeChoice ==
    \A r \in DOMAIN req :
        LET f == req[r]
            cond == {f.graph.branches[k].dst : k \in MatchingBranches(f.graph, f.last, f.out)}
            plain == PlainSuccessors(f.graph, f.last)
        IN  f.last # None =>
               IF cond # {} THEN f.cur \in cond
               ELSE IF plain # {} THEN f.cur \in plain
               ELSE /\ f.cur = None
                    /\ f.pc # "invoke"
                    /\ f.result = f.run

\* The reflect node of the greeting workflow has an unconditional edge to
\* feedback and a conditional edge to greet; its Step Result held the
\* predicate-key and greet is the node to run next.
C13_Witness ==
    \E r \in DOMAIN req :
        /\ req[r].last = "reflect"
        /\ "reask" \in DOMAIN req[r].out
        /\ "feedback" \in PlainSuccessors(req[r].graph, "reflect")
        /\ req[r].cur = "greet"
        /\ req[r].pc = "invoke"

-----------------------------------------------------------------------------
(* Feedback step properties *)

FeedbackReturned == fret # NotReturned

\* The decision and the score collect_feedback works with.
FeedbackDecision == IF fcall.inputs.decision = Absent THEN "ok" ELSE fcall.inputs.decision
FeedbackScore == IF fcall.inputs.score.kind = "absent" THEN 80 ELSE fcall.inputs.score.value

\* C14: for every decision and every score in [0,1] the feedback step's
\* next_action is retry when decision = reask or score < 0.5, review when
\* decision is not reask and 0.5 <= score < 0.8, and proceed when decision is
\* not reask and score >= 0.8; and 0.4 gives retry, 0.5 and 0.79 give review,
\* 0.8 gives proceed.
C14_ThresholdPolicy ==
    (FeedbackReturned /\ fret.status = "recorded") =>
        /\ (FeedbackDecision = "reask" \/ FeedbackScore < 50) <=> fret.next_action = "retry"
        /\ (FeedbackDecision # "reask" /\ 50 <= FeedbackScore /\ FeedbackScore < 80)
              <=> fret.next_action = "review"
        /\ (FeedbackDecision # "reask" /\ FeedbackScore >= 80) <=> fret.next_action = "proceed"
        /\ (FeedbackDecision # "reask" /\ FeedbackScore = 40) => fret.next_action = "retry"
        /\ (FeedbackDecision # "reask" /\ FeedbackScore \in {50, 79}) => fret.next_action = "review"
        /\ (FeedbackDecision # "reask" /\ FeedbackScore = 80) => fret.next_action = "proceed"

\* The feedback step was given decision ok with score 0.5 and answered review.
C14_Witness ==
    /\ FeedbackReturned
    /\ fcall.inputs.decision = "ok"
    /\ fcall.inputs.score = [kind |-> "number", value |-> 50]
    /\ fret.next_action = "review"

\* C15: when a persistence is configured on the feedback step and it fails,
\* collect_feedback raises a node error carrying the feedback record and
\* returns no result; and a configured persistence is never skipped while the
\* step reports the feedback as recorded.
C15_PersistenceNeverSkipped ==
    (FeedbackReturned /\ fcall.persist_func # "none" /\ fcall.inputs.score.kind # "text") =>
        /\ fcall.persist_func \in {"sync_raise", "async_raise"} =>
              /\ fret.status = "raise"
              /\ fret.error = "NodeError"
              /\ fret.context.decision = FeedbackDecision
              /\ fret.context.score = FeedbackScore
        /\ fret.status = "recorded" => fret.persisted

-----------------------------------------------------------------------------
(* Reflection step properties *)

ReflectionReturned == nret # NotReturned

\* The answer the reflection step reviews.
ReflectionAnswer ==
    IF Truthy(ncall.inputs.previous_output) THEN ncall.inputs.previous_output
    ELSE ncall.inputs.answer

\* The evaluation completion was called and failed.
EvaluationFailed == Truthy(ReflectionAnswer) /\ ncall.eval.kind = "raise"

\* The follow-up completion was called (the evaluation said reask) and failed.
ClarificationFailed ==
    /\ Truthy(ReflectionAnswer)
    /\ ncall.eval.kind \in {"dict", "json_object"}
    /\ ncall.eval.decision = "reask"
    /\ ncall.clarify = "raise"

\* C16: when a completion call of the reflection step fails, the evaluation
\* call or the follow-up call made on reask, the step fails with that
\* completion failure as the error its caller gets, and returns no
\* {decision, score, comment} result.
C16_CompletionFailureIsFatal ==
    (ReflectionReturned /\ (EvaluationFailed \/ ClarificationFailed)) =>
        /\ nret.status = "raise"
        /\ nret.cause = "completion"

\* C17: for every response of the completion capability that is not a
\* well-formed {score, decision, comment} object, text that is not JSON or JSON
\* that is not an object, the reflection step does not fail and returns
\* decision ok with score 0.8.
C17_MalformedDefaultsToOk ==
    (/\ ReflectionReturned
     /\ Truthy(ReflectionAnswer)
     /\ ncall.eval.kind \in {"non_json", "json_other"}) =>
        /\ nret.status = "ok"
        /\ nret.decision = "ok"
        /\ nret.score = 80

-----------------------------------------------------------------------------
(* State Bridge properties *)

\* C18: load_state of a session for which nothing has been saved, or whose
\* state was deleted since the last save, returns the empty State without
\* raising; load_state raises exactly when the backend call itself failed.
C18_LoadOfAbsentIsEmpty ==
    mret.op = "load" =>
        /\ (mret.status = "raise") <=> ~mret.backend_ok
        /\ (mret.backend_ok /\ mret.sid \notin mret.live) =>
               /\ mret.status = "ok"
               /\ mret.state = EmptyMap

\* A session that was saved with a non-empty State and then deleted is loaded:
\* the empty State comes back.
C18_Witness ==
    /\ mret.op = "load"
    /\ mret.backend_ok
    /\ mret.sid \in mret.saved
    /\ mret.sid \notin mret.live
    /\ mret.prev = "clear"
    /\ mret.prev_sid = mret.sid
    /\ mret.prev_ok
    /\ mret.status = "ok"
    /\ mret.state = EmptyMap

\* The steps a request has completed, as a set.
Done(f) == {f.trace[i] : i \in DOMAIN f.trace}

\* The request's load_state call was made and did not complete.
LoadFailed(f) == f.loads = 1 /\ "load_state" \notin Done(f)

\* The request's save_state call was made and did not complete.
SaveFailed(f) == f.saves = 1 /\ "save_state" \notin Done(f)

\* The request's update_memory call was made and its vector store failed.
MemoryUpdateFailed(f) == "update_memory" \in Done(f) /\ ~f.memory_updated

\* C19: a failing backend call in load_state or save_state is raised by the
\* State Bridge as MemoryError and the request ends with the status-error
\* response; a failing vector-memory update after the graph run is swallowed:
\* it is never the step the request fails at, the request goes on to
\* post-process and save, and when those work it stores and returns its result.
C19_MemoryFailures ==
    \A r \in DOMAIN req :
        LET f == req[r]
        IN  /\ LoadFailed(f) =>
                   /\ f.failed = "load_state"
                   /\ f.cause = "MemoryError"
                   /\ f.pc \in {"on_error", "done"}
                   /\ f.pc = "done" => f.response = ErrorResponse(f)
                   /\ f.saves = 0
            /\ SaveFailed(f) =>
                   /\ f.failed = "save_state"
                   /\ f.error = "MemoryError"
                   /\ f.pc \in {"on_error", "done"}
                   /\ f.pc = "done" => f.response = ErrorResponse(f)
            /\ f.failed # "update_memory"
            /\ MemoryUpdateFailed(f) =>
                   /\ f.pc \in {"post_process", "save_state", "on_error", "done"}
                   /\ f.failed \in {"", "post_process", "save_state"}
                   /\ (f.pc = "done" /\ f.failed = "") =>
                          /\ f.saves = 1
                          /\ StoredState(f.session_id) = f.result
                          /\ f.response = [domain |-> f.resolved_domain,
                                           intent |-> f.intent,
                                           result |-> f.result]

\* The vector-memory update of a request failed, and the request saved its
\* state and returned its result.
C19_Witness ==
    \E r \in DOMAIN req :
        /\ req[r].pc = "done"
        /\ MemoryUpdateFailed(req[r])
        /\ req[r].failed = ""
        /\ req[r].saves = 1
        /\ req[r].session_id \in DOMAIN store
        /\ store[req[r].session_id] = req[r].result
        /\ req[r].response.result = req[r].result

\* The steps of one request in the order of the specification.
PipelineOrder ==
    <<"pre_process", "classify", "load_state", "build_graph", "run_graph",
      "post_process", "save_state", "return">>

IsPipelineStep(step) == \E i \in DOMAIN PipelineOrder : PipelineOrder[i] = step

Position(step) == CHOOSE i \in DOMAIN PipelineOrder : PipelineOrder[i] = step

\* The pipeline steps a request has completed, in the order of completion.
Completed(f) == SelectSeq(f.trace, IsPipelineStep)

\* The pipeline step a request is in: compiling and invoking belong to the
\* graph run.
InProgress(f) == IF f.pc \in {"compile", "invoke"} THEN "run_graph" ELSE f.pc

\* C20: within one request the steps complete in the order trim query,
\* classify intent, load state, build graph, run graph, post-process, save
\* state, return, and a step is in progress only when exactly the steps before
\* it have completed; the state is saved only after the graph run has
\* completed, and a node of the graph runs only after the state was loaded.
C20_StepOrder ==
    \A r \in DOMAIN req :
        LET f == req[r]
            done == Completed(f)
        IN  /\ Len(done) <= Len(PipelineOrder)
            /\ done = SubSeq(PipelineOrder, 1, Len(done))
            /\ IsPipelineStep(InProgress(f)) => Len(done) = Position(InProgress(f)) - 1
            /\ f.saves > 0 => {"run_graph", "post_process"} \subseteq Done(f)
            /\ f.invoked # << >> => "load_state" \in Done(f) /\ f.loads = 1
            /\ f.builds > 0 => "load_state" \in Done(f)

\* A request went through all the steps, its graph ran more than one node, and
\* it returned.
C20_Witness ==
    \E r \in DOMAIN req :
        /\ req[r].pc = "done"
        /\ Completed(req[r]) = PipelineOrder
        /\ Len(req[r].invoked) > 1
        /\ req[r].saves = 1

-----------------------------------------------------------------------------
(* Concurrency properties *)

\* C22: nothing orders the loads and saves of two requests on one session;
\* every save_state that completes leaves, under the session id, exactly the
\* final state of the request that made it, whatever another request stored
\* there before, so the State persisted at the end is the one of the save that
\* ran last.
C22_LastWriteWins ==
    [][\A r \in DOMAIN req :
          (req[r].pc = "save_state" /\ req'[r].pc = "done") =>
              /\ req[r].session_id \in DOMAIN store'
              /\ store'[req[r].session_id] = req[r].final
              /\ req[r].final = req[r].result]_vars

\* Two requests on one session loaded the same prior State and both returned;
\* the stored State is the one of the second, and a key that only the run of
\* the first produced is not in it.
C22_Witness ==
    /\ req[1].pc = "done" /\ req[1].failed = ""
    /\ req[2].pc = "done" /\ req[2].failed = ""
    /\ req[1].session_id = req[2].session_id
    /\ req[1].state = req[2].state
    /\ store[req[2].session_id] = req[2].final
    /\ \E k \in req[1].written :
          /\ k \in DOMAIN req[1].final
          /\ k \notin DOMAIN store[req[1].session_id]

\* What the steps of one request took from and left in the store so far, when
\* no other request uses its session: the State it loaded is the one stored
\* when it started, the stored State is still that one until it saves, and
\* after its save it is the request's final state.
RanAlone(f) ==
    /\ "load_state" \in Done(f) => f.state = f.before
    /\ "compile" \in Done(f) => f.inputs = Inputs(f.clean_query, f.resolved_domain, f.before)
    /\ (f.pc # "idle" /\ "save_state" \notin Done(f)) => StoredState(f.session_id) = f.before
    /\ "save_state" \in Done(f) =>
           /\ f.session_id \in DOMAIN store
           /\ store[f.session_id] = f.final

\* C28: with every caller on a session of its own, in any interleaving of the
\* requests, a step of a request leaves the State stored under every other
\* session id as it was, and each request reads and leaves under its own
\* session id what it would if it ran alone.
C28_SessionsIsolated ==
    /\ [](\A r \in DOMAIN req : RanAlone(req[r]))
    /\ [][\A r \in DOMAIN req :
             req'[r] # req[r] =>
                 \A sid \in Sessions \ {req[r].session_id} :
                     /\ (sid \in DOMAIN store') <=> (sid \in DOMAIN store)
                     /\ StoredState(sid)' = StoredState(sid)]_vars

\* The request on one session stored its result and returned while the
\* request on another session, which started from an empty State, is between
\* its load and its save; both sessions hold what their own request left.
C28_Witness ==
    /\ req[1].pc = "done" /\ req[1].failed = ""
    /\ req[2].pc = "save_state"
    /\ req[1].session_id # req[2].session_id
    /\ store[req[1].session_id] = req[1].final
    /\ req[2].session_id \notin DOMAIN store
    /\ req[2].final # req[1].final

-----------------------------------------------------------------------------
(* Graph run properties *)

\* The successors of a node over the edges of both kinds.
Successors(g, n) ==
    {e[2] : e \in {x \in g.edges : x[1] = n}}
        \cup {g.branches[k].dst : k \in {j \in 1..Len(g.branches) : g.branches[j].src = n}}

\* The nodes reached from the nodes of from in 1..k steps.
RECURSIVE ReachedIn(_, _, _)
ReachedIn(g, from, k) ==
    IF k = 0 THEN {}
    ELSE LET next == UNION {Successors(g, n) : n \in from}
         IN  next \cup ReachedIn(g, next, k - 1)

Acyclic(g) ==
    \A n \in DOMAIN g.nodes : n \notin ReachedIn(g, {n}, Cardinality(DOMAIN g.nodes))

\* Some edge of the node is taken for the Step Result.
EdgeTaken(g, node, out) ==
    MatchingBranches(g, node, out) # {} \/ PlainSuccessors(g, node) # {}

FeedbackNodes(g) == {n \in DOMAIN g.nodes : g.nodes[n].entry = "collect_feedback"}

\* The workflow has a feedback node and no edge leaves one.
FeedbackIsFinal(g) ==
    /\ FeedbackNodes(g) # {}
    /\ \A n \in FeedbackNodes(g) : Successors(g, n) = {}

\* The nodes a run has executed so far appear once each.
EachNodeOnce(f) == \A i, j \in DOMAIN f.invoked : f.invoked[i] = f.invoked[j] => i = j

\* The run ended after the feedback step it just completed.
EndsAfterFeedback(f) ==
    (f.last \in FeedbackNodes(f.graph) /\ f.failed = "") =>
        /\ f.pc # "invoke"
        /\ f.cur = None
        /\ f.result = f.run

-----------------------------------------------------------------------------
(* Registry properties *)

\* C25: after any sequence of register / get / clear calls on the registries,
\* a register of a name that is present, without override, raises the registry
\* error and leaves the registry as it was; a register with override, or of a
\* name that is not present, makes get(name) give the component just handed
\* in; get of a name that is not registered gives None and does not raise; and
\* no call on one registry changes the content of another.
C25_RegistryContract ==
    [][/\ \A kind \in RegistryKinds \ {kret'.kind} : registries'[kind] = registries[kind]
       /\ kret'.op = "register" =>
             LET was == registries[kret'.kind]
                 now == registries'[kret'.kind]
             IN  IF kret'.name \in DOMAIN was /\ ~kret'.override
                 THEN /\ kret'.status = "raise"
                      /\ kret'.error = "RegistryError"
                      /\ now = was
                 ELSE /\ kret'.status = "ok"
                      /\ RegistryGet(now, kret'.name) = kret'.component
                      /\ \A n \in DOMAIN was \ {kret'.name} :
                             n \in DOMAIN now /\ now[n] = was[n]
                      /\ DOMAIN now = DOMAIN was \cup {kret'.name}
       /\ kret'.op = "get" =>
             /\ kret'.status = "ok"
             /\ registries' = registries
             /\ kret'.name \notin DOMAIN registries[kret'.kind] => kret'.result = None
             /\ kret'.name \in DOMAIN registries[kret'.kind] =>
                    kret'.result = registries[kret'.kind][kret'.name]
       /\ kret'.op = "clear" => registries'[kret'.kind] = EmptyMap]_vars

\* A name registered in the agent registry with component A was registered
\* again with override and component B: the call returned, the agent registry
\* gives B for the name, and the node and memory registries are as at boot.
C25_Witness ==
    /\ kret.op = "register"
    /\ kret.kind = "agent"
    /\ kret.override
    /\ kret.component = "B"
    /\ kret.status = "ok"
    /\ RegistryGet(registries.agent, kret.name) = "B"
    /\ registries.agent["HelloAgent"] = "HelloAgent"
    /\ registries.node = BootRegistries.node
    /\ registries.memory = BootRegistries.memory
    /\ registries.tool = EmptyMap

-----------------------------------------------------------------------------
(* Pipeline properties: the turns of one session *)

\* C26: in every request, the query key of the initial state handed to the
\* graph is the request's own trimmed query and the domain key is the domain
\* the router resolved for the request, whatever the session had stored.
C26_InputsCarryCurrentQuery ==
    \A r \in DOMAIN req :
        "compile" \in Done(req[r]) =>
            /\ req[r].inputs["query"] = req[r].clean_query
            /\ req[r].inputs["domain"] = <<req[r].resolved_domain>>

\* C27: a request that fails, at whichever step from pre-processing to the
\* save, leaves the State stored under its session id as it was when the
\* request started: it is so from the failure on and when the structured
\* error response is returned.
C27_ErrorLeavesStateUntouched ==
    \A r \in DOMAIN req :
        LET f == req[r]
        IN  f.failed # "" =>
               /\ StoredState(f.session_id) = f.before
               /\ "save_state" \notin Done(f)
               /\ f.pc = "done" => f.response = ErrorResponse(f)

\* The second turn of a session ran its graph to a new result, its save
\* failed, the error response was returned, and the session still holds the
\* State of the first turn.
C27_Witness ==
    \E r \in DOMAIN req :
        /\ req[r].pc = "done"
        /\ req[r].failed = "save_state"
        /\ req[r].response = ErrorResponse(req[r])
        /\ req[r].before # EmptyMap
        /\ req[r].final # req[r].before
        /\ store[req[r].session_id] = req[r].before

\* C30: a request calls the backend's load_state at most once and save_state
\* at most once, and saves only after it loaded; a request that returns its
\* result called each exactly once, and the State stored under its session id
\* is the post-processed final state it returns as result.
C30_LoadOnceSaveOnce ==
    \A r \in DOMAIN req :
        LET f == req[r]
        IN  /\ f.loads <= 1
            /\ f.saves <= 1
            /\ f.saves <= f.loads
            /\ (f.pc = "done" /\ f.failed = "") =>
                   /\ f.loads = 1
                   /\ f.saves = 1
                   /\ f.session_id \in DOMAIN store
                   /\ store[f.session_id] = f.response.result
                   /\ f.response.result = f.final
                   /\ "post_process" \in Done(f)

\* The second turn of a session returned its result after one load and one
\* save, and the session holds that result in place of the first turn's State.
C30_Witness ==
    \E r \in DOMAIN req :
        /\ req[r].pc = "done"
        /\ req[r].failed = ""
        /\ req[r].loads = 1
        /\ req[r].saves = 1
        /\ req[r].before # EmptyMap
        /\ req[r].response.result # req[r].before
        /\ store[req[r].session_id] = req[r].response.result

-----------------------------------------------------------------------------
(* Chat controller properties *)

\* C29: when the pipeline failed for a request (handle_user_query gave the
\* structured error response), the response of handle_chat has top-level
\* status "error" and an error field; a response with top-level status
\* "success" is given only for a request whose pipeline did not fail and saved
\* its state.
C29_PipelineFailureIsErrorStatus ==
    (chat # NoCall /\ chat.pc = "returned") =>
        /\ chat.failed # "" =>
              /\ chat.response.status = "error"
              /\ "error" \in DOMAIN chat.response
        /\ chat.response.status = "success" =>
              /\ chat.failed = ""
              /\ chat.saves = 1

====
